---- MODULE Spec2Model ----
(***************************************************************************)
(* Model of the Shopify <-> Odoo synchronisation engine of                 *)
(* src/models/shopify_sync.py (class ShopifySync).                         *)
(*                                                                         *)
(* The business-record store is the generic keyed record store the code    *)
(* drives through search / create / write: every model (product.template,  *)
(* product.product, res.partner, product.supplierinfo, sale.order, ...)    *)
(* is a sequence of records, a record's id is its index, and               *)
(* search(..., limit=1) returns the lowest matching id (0 when none).      *)
(* Fields are independent of one another, as the repository's tests read   *)
(* them (src/tests/test_shopify_sync.py).  The store is transactional:     *)
(* a savepoint that is left by an exception restores the store as it was   *)
(* when the savepoint was entered, and cr.rollback() restores it as it     *)
(* was at the last commit.  Every invocation from outside (scheduler tick, *)
(* direct call) runs in its own transaction that is committed when the     *)
(* call returns, so "the last commit" is the store at the start of the     *)
(* invocation unless the code commits itself.                              *)
(*                                                                         *)
(* sync_log holds the lines appended since the start of the current        *)
(* invocation (the older prefix of the log is not kept in the state).      *)
(* Timestamps are instants counted in seconds.                             *)
(***************************************************************************)
EXTENDS Integers, Sequences, FiniteSets, TLC

VARIABLES db, ret

vars == <<db, ret>>

(***************************************************************************)
(* Bounds of the model.                                                    *)
(***************************************************************************)
MaxPid == 2

MaxT == 2

MaxOid == 2
MaxVid == 2

(***************************************************************************)
(* Values.                                                                 *)
(***************************************************************************)
\* default_code / client_order_ref values: False is the empty tuple, a tag
\* is <<prefix, remote id>> (f"SHOPIFY_{id}", f"SHOPIFY_VAR_{id}").
NoCode == <<>>

ShopifyTag(id) == <<"SHOPIFY_", id>>

VariantTag(id) == <<"SHOPIFY_VAR_", id>>

\* ('default_code', 'like', 'SHOPIFY_%')
LikeShopify(code) == code # NoCode /\ code[1] \in {"SHOPIFY_", "SHOPIFY_VAR_"}

\* search([...], limit=1): the lowest id whose record satisfies P(id, record),
\* 0 (the empty recordset) if none.
Search(seq, P(_, _)) ==
    IF \E i \in 1..Len(seq) : P(i, seq[i])
    THEN CHOOSE i \in 1..Len(seq) :
             P(i, seq[i]) /\ \A j \in 1..(i - 1) : ~P(j, seq[j])
    ELSE 0

\* F applied to the value of x, which is computed once.
With(x, F(_)) == CHOOSE r \in {F(v) : v \in {x}} : TRUE

Max(S) == CHOOSE x \in S : \A y \in S : y <= x

Range(seq) == {seq[i] : i \in 1..Len(seq)}

\* float(s): the strings float() accepts; any other string raises ValueError.
ValidPrices == {"9.99", "12.50"}

FloatOk(s) == s \in ValidPrices

\* The record store after construction: no business record, no watermark.
EmptyDb ==
    [ tmpl |-> <<>>, variant |-> <<>>, partner |-> <<>>,
      categ |-> <<>>, order |-> <<>>, line |-> <<>>, invoice |-> <<>>,
      last_updated_at |-> 0, orders_last_updated_at |-> 0,
      auto_publish |-> "",
      sync_status |-> "idle", sync_log |-> <<>>, logger |-> <<>>,
      access_token |-> "test_token",
      store_url |-> "https://test-store.myshopify.com",
      last_odoo_to_shopify_sync |-> 0,
      requests |-> 0,
      remote |-> <<>>,
      last_sync_date |-> 0,
      supplierinfo |-> <<>>, purchase |-> <<>>, purchase_line |-> <<>> ]

\* _log_sync_message: append one level-tagged line to sync_log and hand the
\* message to the process logger.  logger keeps the error and warning lines
\* of the current invocation; it is no part of the transaction.
LogSyncMessage(d, level, msg) ==
    [d EXCEPT !.sync_log = Append(@, <<level, msg>>),
              !.logger = IF level = "info" THEN @ ELSE Append(@, <<level, msg>>)]

\* A rollback that undoes nothing.
NoRollback(d, snapshot) == d

\* The store as a rollback leaves it: the snapshot, with the lines the
\* process logger already has.
Rollback(d, snapshot) ==
    [snapshot EXCEPT !.logger = d.logger, !.requests = d.requests]

(***************************************************************************)
(* Entity reconciler: products.                                            *)
(***************************************************************************)
\* product.category get-or-create by exact name.
GetOrCreateCategory(d, name) ==
    LET i == Search(d.categ, LAMBDA id, c : c = name)
    IN  IF i # 0 THEN [db |-> d, id |-> i]
        ELSE [db |-> [d EXCEPT !.categ = Append(@, name)], id |-> Len(d.categ) + 1]

\* res.partner get-or-create of the vendor: a company with supplier_rank > 0.
GetOrCreateVendor(d, name) ==
    LET i == Search(d.partner, LAMBDA id, r :
                 r.name = name /\ r.is_company /\ r.supplier_rank > 0)
    IN  IF i # 0 THEN [db |-> d, id |-> i]
        ELSE [db |-> [d EXCEPT !.partner = Append(@,
                        [name |-> name, is_company |-> TRUE, supplier_rank |-> 1,
                         customer_rank |-> 0, email |-> ""])],
              id |-> Len(d.partner) + 1]

\* write(variant_vals) on a product.product record; the barcode key is in
\* the values only when barcode_to_use is set.
KeepVariantVals(r, v, barcode_to_use) == r

WriteVariantVals(r, v, barcode_to_use) ==
    [r EXCEPT !.default_code = VariantTag(v.id),
              !.list_price = v.price,
              !.weight = v.weight,
              !.barcode = IF barcode_to_use # "" THEN barcode_to_use ELSE @]

\* create(variant_vals) with product_tmpl_id.
NewVariant(t, v, barcode_to_use) ==
    [product_tmpl_id |-> t, default_code |-> VariantTag(v.id),
     list_price |-> v.price, weight |-> v.weight, barcode |-> barcode_to_use]

\* create({product_tmpl_id, default_code}): the last-resort variant; its
\* price is the one the store gives a record created without one.
MinimalVariant(t, v) ==
    [product_tmpl_id |-> t, default_code |-> VariantTag(v.id),
     list_price |-> "1.0", weight |-> 0, barcode |-> ""]

\* _save_product_variant(product_template, variant): [db, exc, id].
\* v.fails names the store call that raises while this variant is saved:
\* "write" (any write of variant_vals), "create" (create of variant_vals),
\* "minimal" (that create and the create of the minimal variant after it),
\* "none".  exc is TRUE when float() of the price raises or when no variant
\* at all could be created; nothing catches either here.
SaveProductVariant(d, t, v) ==
    LET existing == Search(d.variant, LAMBDA id, r : r.default_code = VariantTag(v.id))
        d1 == IF existing = 0
              THEN LogSyncMessage(d, "info", <<"Processed attributes for variant", v.id>>)
              ELSE LogSyncMessage(d, "info", <<"Skipping attribute processing", v.id>>)
        taken == IF v.barcode = "" THEN 0
                 ELSE Search(d1.variant, LAMBDA id, r :
                          r.barcode = v.barcode /\ id # existing)
        d2 == IF taken # 0
              THEN LogSyncMessage(d1, "warning", <<"Barcode already used", v.barcode>>)
              ELSE d1
        barcode_to_use == IF taken # 0 THEN "" ELSE v.barcode
        untagged == Search(d2.variant, LAMBDA id, r :
                        r.product_tmpl_id = t /\ r.default_code = NoCode)
        anyOfT == Search(d2.variant, LAMBDA id, r : r.product_tmpl_id = t)
        template_variant == IF untagged # 0 THEN untagged ELSE anyOfT
        Written(i, msg) ==
            IF v.fails = "write"
            THEN [db |-> LogSyncMessage(d2, "warning",
                             <<"Could not update variant, using as-is", v.id>>),
                  exc |-> FALSE, id |-> i]
            ELSE [db |-> LogSyncMessage(
                             [d2 EXCEPT !.variant[i] = WriteVariantVals(@, v, barcode_to_use)],
                             "info", <<msg, v.id>>),
                  exc |-> FALSE, id |-> i]
        Created ==
            [db |-> LogSyncMessage(
                        [d2 EXCEPT !.variant = Append(@, NewVariant(t, v, barcode_to_use))],
                        "info", <<"Created new variant", v.id>>),
             exc |-> FALSE, id |-> Len(d2.variant) + 1]
        \* existing variant on another template, none on this one
        CreatedOrExistingUpdated ==
            IF v.fails \in {"create", "minimal"}
            THEN [db |-> [LogSyncMessage(d2, "warning",
                              <<"Could not create new variant, updating existing", v.id>>)
                            EXCEPT !.variant[existing] = WriteVariantVals(@, v, barcode_to_use)],
                  exc |-> FALSE, id |-> existing]
            ELSE Created
        \* no variant carries the tag, none on this template
        CreatedOrMinimal ==
            LET failed == LogSyncMessage(d2, "error",
                              <<"Variant creation failed unexpectedly", v.id>>)
            IN  IF v.fails = "minimal"
                THEN [db |-> LogSyncMessage(failed, "error",
                                 <<"Could not create any variant", v.id>>),
                      exc |-> TRUE, id |-> 0]
                ELSE IF v.fails = "create"
                THEN [db |-> LogSyncMessage(
                                 [failed EXCEPT !.variant = Append(@, MinimalVariant(t, v))],
                                 "info", <<"Created minimal fallback variant", v.id>>),
                      exc |-> FALSE, id |-> Len(d2.variant) + 1]
                ELSE Created
        res == IF existing # 0
               THEN IF d2.variant[existing].product_tmpl_id = t
                    THEN Written(existing, "Updated existing variant")
                    ELSE IF template_variant # 0
                         THEN Written(template_variant, "Updated template variant")
                         ELSE CreatedOrExistingUpdated
               ELSE IF anyOfT # 0
                    THEN Written(anyOfT, "Updated existing template variant")
                    ELSE CreatedOrMinimal
    IN  IF ~FloatOk(v.price)
        THEN [db |-> d2, exc |-> TRUE, id |-> 0]
        ELSE With(res, LAMBDA r :
             IF ~r.exc /\ r.db.variant[r.id].product_tmpl_id # t
             THEN [r EXCEPT !.db = LogSyncMessage(@, "warning",
                                       <<"Variant not properly linked", v.id>>)]
             ELSE r)

\* The loop over shopify_product['variants']: [db, exc, ids].
RECURSIVE SaveVariants(_, _, _, _)
SaveVariants(d, t, vs, ids) ==
    IF vs = <<>> THEN [db |-> d, exc |-> FALSE, ids |-> ids]
    ELSE With(SaveProductVariant(d, t, Head(vs)), LAMBDA r :
             IF r.exc THEN [db |-> r.db, exc |-> TRUE, ids |-> ids]
             ELSE SaveVariants(r.db, t, Tail(vs), Append(ids, r.id)))

\* _verify_variant_linkage: a returned variant that is linked to another
\* template is written onto this one.
RECURSIVE VerifyVariantLinkage(_, _, _)
VerifyVariantLinkage(d, t, ids) ==
    IF ids = <<>> THEN d
    ELSE LET i == Head(ids)
             d1 == IF d.variant[i].product_tmpl_id # t
                   THEN LogSyncMessage(
                            LogSyncMessage(
                                [d EXCEPT !.variant[i].product_tmpl_id = t],
                                "error", <<"Variant not linked to template", i>>),
                            "warning", <<"Fixed variant linkage", i>>)
                   ELSE d
         IN  VerifyVariantLinkage(d1, t, Tail(ids))

\* ir.config_parameter keeps strings: set_param(key, value) stores
\* str(value), and removes the parameter when value is False.  auto_publish
\* is the stored string of 'shopify.auto_publish_website', "" when there is
\* no such parameter.
StrOfBool(value) == IF value THEN "True" ELSE "False"

StoredParam(value) == IF value THEN StrOfBool(value) ELSE ""

\* is_published of template_vals: get_param gives the stored string, or
\* False when there is none; published only if that is truthy and the remote
\* status is 'active' (a product without status counts as 'draft').
IsPublished(d, p) == d.auto_publish # "" /\ p.status = "active"

\* A lookup of vendor lines that never finds any.
NoSeller(d, t, vendor) == 0

\* The product.supplierinfo row of (template, vendor) among the template's
\* seller_ids, 0 if none.  seller_ids holds the partner of every vendor line
\* of the template, oldest first.
SellerOf(d, t, vendor) ==
    Search(d.tmpl[t].seller_ids, LAMBDA id, partner_id : partner_id = vendor)

\* The vendor line added to an existing template after its update, unless
\* one is already there.
AddVendorToExisting(d, t, vendor, name) ==
    IF SellerOf(d, t, vendor) = 0
    THEN LogSyncMessage(
             [d EXCEPT !.tmpl[t].seller_ids = Append(@, vendor)],
             "info", <<"Added vendor to existing product", name>>)
    ELSE LogSyncMessage(d, "info", <<"Vendor already exists for product", name>>)

\* A lookup by tag that never finds any template.
NoTemplate(d, id) == 0

\* The exists-by-tag lookup, the primary check of _save_single_product.
TemplateByTag(d, id) ==
    Search(d.tmpl, LAMBDA i, r : r.default_code = ShopifyTag(id))

\* The secondary check: a template of that name without any default_code.
TemplateByNameUntagged(d, title) ==
    Search(d.tmpl, LAMBDA i, r : r.name = title /\ r.default_code = NoCode)

NoDuplicate(d, title, id) == 0

\* The collision check: a template of that name tagged with another id.
DuplicateShopifyProduct(d, title, id) ==
    Search(d.tmpl, LAMBDA i, r :
        r.name = title /\ LikeShopify(r.default_code) /\ r.default_code # ShopifyTag(id))

\* The part of _save_single_product after the category and the vendor are
\* resolved: lookup, template write, variants.  categ_id and vendor are the
\* ids of the category and of the vendor partner (0: the payload names no
\* vendor).
UpsertTemplate(d1, p, categ_id, vendor) ==
    LET byTag == TemplateByTag(d1, p.id)
        byName == IF byTag = 0 THEN TemplateByNameUntagged(d1, p.title) ELSE 0
        dup == IF byTag = 0 /\ byName = 0
               THEN DuplicateShopifyProduct(d1, p.title, p.id) ELSE 0
        existing == IF byTag # 0 THEN byTag ELSE byName
        d2 == IF byName # 0
              THEN LogSyncMessage(
                       [d1 EXCEPT !.tmpl[byName].default_code = ShopifyTag(p.id)],
                       "info", <<"Linked existing product", p.title>>)
              ELSE d1
        d3 == LogSyncMessage(d2, "info",
                  <<IF existing # 0 THEN "Updating product" ELSE "Creating product", p.title>>)
        vendor_already_exists ==
            vendor # 0 /\ existing # 0 /\ SellerOf(d3, existing, vendor) # 0
        Vals(old) ==
            [name |-> p.title, default_code |-> ShopifyTag(p.id), categ_id |-> categ_id,
             purchase_ok |-> (vendor # 0), is_published |-> IsPublished(d3, p),
             x_shopify_updated_at |-> IF p.updated_at # 0 THEN p.updated_at
                                      ELSE old.x_shopify_updated_at,
             x_shopify_synced_at |-> old.x_shopify_synced_at,
             write_date |-> old.write_date,
             dropship |-> (old.dropship \/ vendor # 0),
             seller_ids |-> old.seller_ids]
        blank == [x_shopify_updated_at |-> 0, x_shopify_synced_at |-> 0,
                  write_date |-> 0, dropship |-> FALSE,
                  seller_ids |-> IF vendor # 0 THEN <<vendor>> ELSE <<>>]
        updated ==
            With(LogSyncMessage(
                     [d3 EXCEPT !.tmpl[existing] = Vals(@)],
                     "info", <<"Successfully updated product template", p.title>>),
                 LAMBDA w : IF vendor # 0 /\ ~vendor_already_exists
                            THEN AddVendorToExisting(w, existing, vendor, p.vendor)
                            ELSE w)
        created ==
            LogSyncMessage([d3 EXCEPT !.tmpl = Append(@, Vals(blank))],
                "info", <<"Successfully created new product template", p.title>>)
        t == IF existing # 0 THEN existing ELSE Len(d1.tmpl) + 1
    IN  IF dup # 0
        THEN [db |-> LogSyncMessage(
                         LogSyncMessage(d1, "warning",
                             <<"Product with same name but different Shopify ID already exists", p.title>>),
                         "info", <<"Skipping product", p.title>>),
              exc |-> FALSE, id |-> 0, skipped |-> TRUE]
        ELSE With(IF existing # 0 THEN updated ELSE created, LAMBDA d4 :
             With(SaveVariants(d4, t, p.variants, <<>>), LAMBDA vs :
                 IF vs.exc
                 THEN [db |-> vs.db, exc |-> TRUE, id |-> 0, skipped |-> FALSE]
                 ELSE [db |-> LogSyncMessage(VerifyVariantLinkage(vs.db, t, vs.ids),
                                             "info", <<"Saved product", p.title>>),
                       exc |-> FALSE, id |-> t, skipped |-> FALSE]))

\* _save_single_product(shopify_product): [db, exc, id, skipped].
SaveSingleProduct(d0, p) ==
    With(GetOrCreateCategory(d0, IF p.product_type = "" THEN "Uncategorized"
                                                        ELSE p.product_type),
         LAMBDA c :
    With(IF p.vendor = "" THEN [db |-> c.db, id |-> 0]
         ELSE GetOrCreateVendor(c.db, p.vendor),
         LAMBDA vr : UpsertTemplate(vr.db, p, c.id, vr.id)))

(***************************************************************************)
(* Per-record transaction isolation and the inbound product invocations.   *)
(***************************************************************************)
\* cr.rollback() in the except branch of save_products_to_odoo: the whole
\* transaction goes back to the last commit.
CrRollback(d, committed) == Rollback(d, committed)

\* save_products_to_odoo(products): the store after the loop.  committed is
\* the store at the last commit; seen is processed_ids.
RECURSIVE SaveProductsLoop(_, _, _, _)
SaveProductsLoop(d, committed, products, seen) ==
    IF products = <<>> THEN d
    ELSE LET p == Head(products)
         IN  IF p.id \in seen
             THEN SaveProductsLoop(
                      LogSyncMessage(d, "warning",
                          <<"Skipping duplicate product in same sync batch", p.title>>),
                      committed, Tail(products), seen)
             ELSE With(SaveSingleProduct(d, p), LAMBDA r :
                  IF r.exc
                  THEN With(CrRollback(
                                LogSyncMessage(Rollback(r.db, d), "error",
                                               <<"Error saving product", p.title>>),
                                committed),
                            LAMBDA failed :
                                SaveProductsLoop(failed, committed, Tail(products),
                                                 seen \cup {p.id}))
                  ELSE SaveProductsLoop(r.db, committed, Tail(products), seen \cup {p.id}))

SaveProductsToOdoo(d, committed, products) ==
    SaveProductsLoop(d, committed, products, {})

\* max(product.get('updated_at', '') for product in products)
LatestUpdatedAt(batch) == Max({batch[i].updated_at : i \in 1..Len(batch)})

\* datetime.fromisoformat(t) + timedelta(seconds=1), formatted back.
PlusOneSecond(t) == t + 1

\* The watermark auto_sync_shopify_products stores for a batch: one second
\* past the batch maximum when that maximum is the watermark it started from.
BatchMaximum(latest, last_updated_at) == latest

NextProductWatermark(latest, last_updated_at) ==
    IF latest = last_updated_at THEN PlusOneSecond(latest) ELSE latest

\* A fetch that hands back whatever it was given and never raises.
NoConfigError(d) == ""

\* _get_shopify_headers and _get_shopify_url: the UserError they raise when
\* the access token or the store URL is not configured, "" when both are.
ConfigError(d) ==
    IF d.access_token = "" THEN "Shopify access token is not configured"
    ELSE IF d.store_url = "" THEN "Shopify store URL is not configured"
    ELSE ""

\* A request layer that sends everything twice.
RequestTwice(d) == [d EXCEPT !.requests = @ + 2]

\* requests.get / post / put: one more HTTP request has left the process.
Request(d) == [d EXCEPT !.requests = @ + 1]

FetchNeverFails(d, fetch) ==
    [db |-> d, exc |-> FALSE, batch |-> fetch.batch, err |-> ""]

\* fetch_single_batch_products / fetch_single_batch_orders: the one request
\* either yields its page or raises (HTTP error status after the retries,
\* network error); the error is logged before it is raised again.
FetchSingleBatch(d, fetch) ==
    LET sent == Request(LogSyncMessage(d, "info", <<"Making single API call">>))
    IN  IF ConfigError(d) # ""
        THEN [db |-> LogSyncMessage(d, "error",
                         <<"Unexpected error fetching single batch", ConfigError(d)>>),
              exc |-> TRUE, batch |-> <<>>, err |-> ConfigError(d)]
        ELSE IF fetch.kind = "ok"
        THEN [db |-> LogSyncMessage(sent, "info", <<"Fetched single batch", Len(fetch.batch)>>),
              exc |-> FALSE, batch |-> fetch.batch, err |-> ""]
        ELSE [db |-> LogSyncMessage(sent, "error",
                         <<"HTTP error fetching single batch", fetch.kind>>),
              exc |-> TRUE, batch |-> <<>>, err |-> fetch.kind]

\* auto_sync_shopify_products(): [db, result].  result is what the call
\* returns: False from the except branch, None when it falls off the end.
AutoSyncShopifyProducts(d0, fetch) ==
    LET d1 == [LogSyncMessage(d0, "info", <<"Starting Shopify products synchronization">>)
                  EXCEPT !.sync_status = "running"]
        last_updated_at == d1.last_updated_at
        d2 == LogSyncMessage(d1, "info",
                  <<IF last_updated_at = 0 THEN "First sync" ELSE "Incremental sync",
                    last_updated_at>>)
        f == FetchSingleBatch(d2, fetch)
        latest == LatestUpdatedAt(f.batch)
        stamped ==
            With(SaveProductsToOdoo(f.db, d0, f.batch), LAMBDA saved :
                IF latest # 0
                THEN LogSyncMessage(
                         [saved EXCEPT !.last_updated_at =
                                           NextProductWatermark(latest, last_updated_at)],
                         "info", <<"Updated last sync timestamp">>)
                ELSE saved)
        d3 == IF f.batch # <<>>
              THEN LogSyncMessage(stamped, "info", <<"Processed batch", Len(f.batch)>>)
              ELSE LogSyncMessage(f.db, "info", <<"No products to sync in this batch">>)
    IN  IF f.exc
        THEN [db |-> LogSyncMessage([f.db EXCEPT !.sync_status = "error"], "error",
                                    <<"Error during product sync", f.err>>),
              result |-> "False"]
        ELSE [db |-> LogSyncMessage([d3 EXCEPT !.sync_status = "completed",
                                               !.last_sync_date = fetch.now],
                                    "info", <<"Successfully synced", Len(f.batch)>>),
              result |-> "None"]

\* _sync_products_chunked(updated_at_min=...): [db, exc, result].  The chunk
\* is the pages fetch_shopify_products_chunk concatenates; result is
\* total_synced.
SyncProductsChunked(d, fetch) ==
    LET d0 == Request(d)
        latest == LatestUpdatedAt(fetch.batch)
        stamped ==
            With(SaveProductsToOdoo(d0, d0, fetch.batch), LAMBDA saved :
                IF latest # 0
                THEN LogSyncMessage([saved EXCEPT !.last_updated_at = latest],
                                    "info", <<"Updated last sync timestamp">>)
                ELSE saved)
    IN  IF ConfigError(d) # ""
        THEN [db |-> LogSyncMessage(
                         LogSyncMessage(d, "error",
                             <<"Unexpected error fetching products chunk", ConfigError(d)>>),
                         "error", <<"Error in chunked sync", ConfigError(d)>>),
              exc |-> TRUE, result |-> 0]
        ELSE IF fetch.kind # "ok"
        THEN [db |-> LogSyncMessage(
                         LogSyncMessage(d0, "error",
                             <<"HTTP error fetching products chunk", fetch.kind>>),
                         "error", <<"Error in chunked sync", fetch.kind>>),
              exc |-> TRUE, result |-> 0]
        ELSE IF fetch.batch = <<>>
             THEN [db |-> LogSyncMessage(d0, "info", <<"No products to sync">>),
                   exc |-> FALSE, result |-> 0]
             ELSE [db |-> LogSyncMessage(stamped, "info",
                              <<"Processed chunk", Len(fetch.batch)>>),
                   exc |-> FALSE, result |-> Len(fetch.batch)]

\* A customer lookup that never finds anyone: a partner is created for
\* every order.
CreateCustomer(d, o) ==
    [db |-> [d EXCEPT !.partner =
                 Append(@, [name |-> o.name, is_company |-> FALSE, supplier_rank |-> 0,
                            customer_rank |-> 1, email |-> o.email])],
     exc |-> FALSE, id |-> Len(d.partner) + 1]

(***************************************************************************)
(* Entity reconciler: orders, and the order/invoice side effects.          *)
(***************************************************************************)
\* _get_or_create_customer(shopify_order): [db, exc, id].  Without an email
\* an anonymous customer named after the order is created; otherwise the
\* partner with that email is reused, or one is created.
GetOrCreateCustomer(d, o) ==
    LET found == Search(d.partner, LAMBDA id, r : r.email = o.email)
        new == [name |-> IF o.email = "" THEN o.name ELSE o.email,
                is_company |-> FALSE, supplier_rank |-> 0, customer_rank |-> 1,
                email |-> o.email]
    IN  IF o.email # "" /\ found # 0
        THEN [db |-> d, exc |-> FALSE, id |-> found]
        ELSE IF o.raises = "customer"
             THEN [db |-> d, exc |-> TRUE, id |-> 0]
             ELSE [db |-> [d EXCEPT !.partner = Append(@, new)], exc |-> FALSE,
                   id |-> Len(d.partner) + 1]

\* _create_order_line(sale_order, line_item): [db, exc].  The product is
\* looked up by the tag built from line_item['id']; float() of the quantity
\* and of the price may raise.
CreateOrderLine(d, order_id, item) ==
    LET product == Search(d.variant, LAMBDA id, r : r.default_code = VariantTag(item.id))
        d1 == IF product # 0
              THEN LogSyncMessage(d, "info", <<"Found product for line item", item.title>>)
              ELSE LogSyncMessage(d, "warning", <<"Product not found for line item", item.title>>)
        line == [order_id |-> order_id, product_id |-> product, name |-> item.title,
                 product_uom_qty |-> item.quantity, price_unit |-> item.price]
    IN  IF ~FloatOk(item.price)
        THEN [db |-> d1, exc |-> TRUE]
        ELSE [db |-> [d1 EXCEPT !.line = Append(@, line)], exc |-> FALSE]

RECURSIVE CreateOrderLines(_, _, _)
CreateOrderLines(d, order_id, items) ==
    IF items = <<>> THEN [db |-> d, exc |-> FALSE]
    ELSE With(CreateOrderLine(d, order_id, Head(items)), LAMBDA r :
             IF r.exc THEN r ELSE CreateOrderLines(r.db, order_id, Tail(items)))

\* The ids of the sale.order.line records of an order, oldest first.
RECURSIVE OrderLineIds(_, _, _)
OrderLineIds(d, order_id, from) ==
    IF from > Len(d.line) THEN <<>>
    ELSE IF d.line[from].order_id = order_id
         THEN <<from>> \o OrderLineIds(d, order_id, from + 1)
         ELSE OrderLineIds(d, order_id, from + 1)

\* The account.move created for a paid order: one invoice line per order
\* line, with its name, quantity, unit price and product.
InvoiceOf(d, order_id) ==
    LET ids == OrderLineIds(d, order_id, 1)
    IN  [invoice_origin |-> order_id, partner_id |-> d.order[order_id].partner_id,
         state |-> "draft",
         invoice_line_ids |->
             [k \in 1..Len(ids) |->
                 [name |-> d.line[ids[k]].name,
                  quantity |-> d.line[ids[k]].product_uom_qty,
                  price_unit |-> d.line[ids[k]].price_unit,
                  product_id |-> d.line[ids[k]].product_id,
                  sale_line_id |-> ids[k]]]]

\* A lookup of orders that never finds any.
NoOrder(d, id) == 0

\* A paid branch that confirms nothing and makes no invoice.
NoInvoice(d, o, order_id) == [db |-> d, exc |-> FALSE]

\* The lookup _save_single_order starts with: a sale order carrying the tag
\* that is not in state 'cancel'.
ExistingOrder(d, id) ==
    Search(d.order, LAMBDA i, r :
        r.client_order_ref = ShopifyTag(id) /\ r.state # "cancel")

\* The paid branch: action_confirm, the invoice mirroring the order lines,
\* action_post.  [db, exc].
ConfirmAndInvoice(d, o, order_id) ==
    LET confirmed == [d EXCEPT !.order[order_id].state = "sale"]
        invoiced == [confirmed EXCEPT !.invoice = Append(@, InvoiceOf(confirmed, order_id))]
        posted == [invoiced EXCEPT !.invoice[Len(invoiced.invoice)].state = "posted"]
    IN  IF o.raises = "confirm" THEN [db |-> d, exc |-> TRUE]
        ELSE IF o.raises = "invoice" THEN [db |-> confirmed, exc |-> TRUE]
        ELSE [db |-> LogSyncMessage(posted, "info", <<"Invoice not sent due to configuration", o.name>>),
              exc |-> FALSE]

\* _save_single_order(shopify_order): [db, exc, id].  o.raises names the
\* store call that raises while this order is reconciled ("none": no call).
SaveSingleOrder(d0, o) ==
    LET existing == ExistingOrder(d0, o.id)
        order_id == Len(d0.order) + 1
        Header(customer) ==
            [partner_id |-> customer, client_order_ref |-> ShopifyTag(o.id),
             origin |-> o.name, state |-> "draft"]
        Final(d) ==
            IF o.financial_status = "cancelled"
            THEN [db |-> LogSyncMessage([d EXCEPT !.order[order_id].state = "cancel"],
                                        "info", <<"Order is cancelled", o.name>>),
                  exc |-> FALSE]
            ELSE IF o.financial_status = "paid" THEN ConfirmAndInvoice(d, o, order_id)
            ELSE IF o.financial_status = "partially_paid"
            THEN [db |-> LogSyncMessage(d, "info",
                             <<"Order is partially paid, invoice will not be created", o.name>>),
                  exc |-> FALSE]
            ELSE [db |-> LogSyncMessage(d, "info",
                             <<"Order is not paid, invoice will not be created", o.name>>),
                  exc |-> FALSE]
    IN  IF existing # 0
        THEN [db |-> LogSyncMessage(d0, "info", <<"Order already exists, skipping", o.name>>),
              exc |-> FALSE, id |-> existing]
        ELSE With(GetOrCreateCustomer(d0, o), LAMBDA c :
             IF c.exc \/ o.raises = "header" THEN [db |-> c.db, exc |-> TRUE, id |-> 0]
             ELSE With(CreateOrderLines([c.db EXCEPT !.order = Append(@, Header(c.id))],
                                        order_id, o.line_items),
                       LAMBDA ls :
                  IF ls.exc THEN [db |-> ls.db, exc |-> TRUE, id |-> 0]
                  ELSE With(Final(ls.db), LAMBDA final :
                       IF final.exc THEN [db |-> final.db, exc |-> TRUE, id |-> 0]
                       ELSE [db |-> final.db, exc |-> FALSE, id |-> order_id])))

\* save_orders_to_odoo(orders): [db, success_count] after the loop; every
\* order runs inside its own savepoint.
RECURSIVE SaveOrdersLoop(_, _, _)
SaveOrdersLoop(d, orders, success_count) ==
    IF orders = <<>> THEN [db |-> d, success_count |-> success_count]
    ELSE LET o == Head(orders)
         IN  With(SaveSingleOrder(d, o), LAMBDA r :
             IF r.exc
             THEN With(LogSyncMessage(Rollback(r.db, d), "error",
                                      <<"Error saving order", o.name>>),
                       LAMBDA failed : SaveOrdersLoop(failed, Tail(orders), success_count))
             ELSE SaveOrdersLoop(r.db, Tail(orders), success_count + 1))

SaveOrdersToOdoo(d, orders) ==
    With(SaveOrdersLoop(d, orders, 0), LAMBDA r :
        IF r.success_count = Len(orders)
        THEN LogSyncMessage(r.db, "info",
                 <<"Successfully synced orders", r.success_count, Len(orders)>>)
        ELSE LogSyncMessage(r.db, "warning",
                 <<"Successfully synced orders out of", r.success_count, Len(orders)>>))

\* auto_sync_shopify_orders(): [db, result].  The watermark is stored
\* before the batch is reconciled; what is stored is the batch maximum
\* rendered in UTC, the same instant.
AutoSyncShopifyOrders(d0, fetch) ==
    LET d1 == [LogSyncMessage(d0, "info", <<"Starting Shopify orders synchronization">>)
                  EXCEPT !.sync_status = "running"]
        last_updated_at == d1.orders_last_updated_at
        d2 == LogSyncMessage(d1, "info",
                  <<IF last_updated_at = 0 THEN "First sync" ELSE "Incremental sync",
                    last_updated_at>>)
        f == FetchSingleBatch(d2, fetch)
        latest == LatestUpdatedAt(f.batch)
        stamped ==
            IF latest # 0
            THEN LogSyncMessage(
                     [f.db EXCEPT !.orders_last_updated_at = latest],
                     "info", <<"Updated last orders sync timestamp">>)
            ELSE f.db
        d3 == IF f.batch # <<>>
              THEN SaveOrdersToOdoo(stamped, f.batch)
              ELSE LogSyncMessage(f.db, "info", <<"No orders to sync in this batch">>)
    IN  IF f.exc
        THEN [db |-> LogSyncMessage([f.db EXCEPT !.sync_status = "error"], "error",
                                    <<"Error during order sync", f.err>>),
              result |-> "False"]
        ELSE [db |-> LogSyncMessage([d3 EXCEPT !.sync_status = "completed",
                                               !.last_sync_date = fetch.now],
                                    "info", <<"Successfully synced", Len(f.batch)>>),
              result |-> "None"]

(***************************************************************************)
(* Outbound: export, inventory and updates to the remote store.            *)
(***************************************************************************)
\* search(domain, limit=...) on product.template: the ids from i on whose
\* record satisfies the tag condition, in id order.  Every template is
\* sale_ok: it is the default and the only value the code writes.
RECURSIVE TemplatesWhere(_, _, _)
TemplatesWhere(d, tagged, i) ==
    IF i > Len(d.tmpl) THEN <<>>
    ELSE IF LikeShopify(d.tmpl[i].default_code) = tagged
         THEN <<i>> \o TemplatesWhere(d, tagged, i + 1)
         ELSE TemplatesWhere(d, tagged, i + 1)

\* The variants of template t tagged SHOPIFY_VAR_, in id order.
RECURSIVE ShopifyVariants(_, _, _)
ShopifyVariants(d, t, i) ==
    IF i > Len(d.variant) THEN <<>>
    ELSE IF d.variant[i].product_tmpl_id = t /\ LikeShopify(d.variant[i].default_code)
         THEN <<i>> \o ShopifyVariants(d, t, i + 1)
         ELSE ShopifyVariants(d, t, i + 1)

\* The clock of the outbound invocations counts ticks, TicksPerSecond to
\* the second.  fields.Datetime.now() is the present instant without its
\* fraction of a second; write_date, which the store sets on every write of
\* a record, is the instant the transaction began, with its fraction.
TicksPerSecond == 2

Truncate(t) == t - (t % TicksPerSecond)

\* fields.Datetime.now() during an invocation.
CurrentTime(out) == Truncate(out.now)

\* The first n elements of a sequence: search(domain, limit=n).
FirstN(seq, n) == IF Len(seq) <= n THEN seq ELSE SubSeq(seq, 1, n)

\* The limit of the search of export_products_to_shopify.
ExportLimit == 10

\* The limit of the search of update_products_to_shopify.
UpdateLimit == 20

\* The id the remote store gives the product created for template i: one
\* that no product has yet.
NewRemoteId(i) == MaxPid + i

\* _export_single_product(product_template): [db, exc].
ExportSingleProduct(d, i, out) ==
    IF ConfigError(d) # ""
    THEN [db |-> LogSyncMessage(d, "error",
                     <<"Unexpected error exporting product", ConfigError(d)>>),
          exc |-> TRUE]
    ELSE IF i \in out.bad
    THEN [db |-> LogSyncMessage(Request(d), "error", <<"HTTP error exporting product", i>>),
          exc |-> TRUE]
    ELSE [db |-> LogSyncMessage(
                     IF out.with_id
                     THEN [Request(d) EXCEPT !.tmpl[i].default_code = ShopifyTag(NewRemoteId(i)),
                                             !.tmpl[i].x_shopify_synced_at = CurrentTime(out),
                                             !.tmpl[i].x_shopify_updated_at = CurrentTime(out),
                                             !.tmpl[i].write_date = out.began]
                     ELSE Request(d),
                     "info", <<"Exported product", d.tmpl[i].name>>),
          exc |-> FALSE]

\* The loop of export_products_to_shopify: [db, count].
RECURSIVE ExportLoop(_, _, _, _)
ExportLoop(d, ids, out, count) ==
    IF ids = <<>> THEN [db |-> d, count |-> count]
    ELSE With(ExportSingleProduct(d, Head(ids), out), LAMBDA r :
             IF r.exc
             THEN ExportLoop(LogSyncMessage(r.db, "error",
                                 <<"Error exporting product", d.tmpl[Head(ids)].name>>),
                             Tail(ids), out, count)
             ELSE ExportLoop(r.db, Tail(ids), out, count + 1))

\* The outer except branch of the three outbound entry points: the status
\* becomes 'error', the error is logged, and the exception is raised again.
Reraise(d, msg) ==
    [db |-> LogSyncMessage([d EXCEPT !.sync_status = "error"], "error", <<msg, "batch">>),
     exc |-> TRUE, result |-> "None"]

\* export_products_to_shopify(): [db, exc, result].
ExportProductsToShopify(d0, out) ==
    LET d1 == [LogSyncMessage(d0, "info", <<"Starting product export to Shopify">>)
                  EXCEPT !.sync_status = "running"]
    IN  IF out.fails = "batch"
        THEN Reraise(d1, "Error during product export")
        ELSE With(ExportLoop(d1, FirstN(TemplatesWhere(d1, FALSE, 1), ExportLimit), out, 0),
                  LAMBDA r :
            [db |-> LogSyncMessage([r.db EXCEPT !.sync_status = "completed",
                                                !.last_sync_date = CurrentTime(out)],
                                   "info", <<"Successfully exported", r.count>>),
             exc |-> FALSE, result |-> "None"])

\* _update_shopify_variant_inventory for the tagged variants of template
\* i, in _sync_product_inventory_to_shopify: [db, exc].  The remote variant
\* has an inventory item and the remote store a location: three requests
\* for every variant.
RECURSIVE SyncProductInventory(_, _, _, _)
SyncProductInventory(d, i, vs, out) ==
    IF vs = <<>> THEN [db |-> d, exc |-> FALSE]
    ELSE IF ConfigError(d) # "" \/ i \in out.bad
    THEN [db |-> LogSyncMessage(
                     LogSyncMessage(IF ConfigError(d) # "" THEN d ELSE Request(d), "error",
                         <<IF ConfigError(d) # "" THEN "Unexpected error updating Shopify inventory"
                           ELSE "HTTP error updating Shopify inventory", Head(vs)>>),
                     "error", <<"Error syncing inventory for product", d.tmpl[i].name>>),
          exc |-> TRUE]
    ELSE SyncProductInventory(
             LogSyncMessage(Request(Request(Request(d))), "info",
                 <<"Updated Shopify inventory for variant", Head(vs)>>),
             i, Tail(vs), out)

\* The loop of sync_inventory_to_shopify: [db, count].
RECURSIVE InventoryLoop(_, _, _, _)
InventoryLoop(d, ids, out, count) ==
    IF ids = <<>> THEN [db |-> d, count |-> count]
    ELSE With(SyncProductInventory(d, Head(ids), ShopifyVariants(d, Head(ids), 1), out),
              LAMBDA r :
             IF r.exc
             THEN InventoryLoop(LogSyncMessage(r.db, "error",
                                    <<"Error syncing inventory for", d.tmpl[Head(ids)].name>>),
                                Tail(ids), out, count)
             ELSE InventoryLoop(r.db, Tail(ids), out, count + 1))

\* sync_inventory_to_shopify(): [db, exc, result].
SyncInventoryToShopify(d0, out) ==
    LET d1 == [LogSyncMessage(d0, "info", <<"Starting inventory sync to Shopify">>)
                  EXCEPT !.sync_status = "running"]
    IN  IF out.fails = "batch"
        THEN Reraise(d1, "Error during inventory sync")
        ELSE With(InventoryLoop(d1, TemplatesWhere(d1, TRUE, 1), out, 0), LAMBDA r :
            [db |-> LogSyncMessage([r.db EXCEPT !.sync_status = "completed",
                                                !.last_sync_date = CurrentTime(out)],
                                   "info", <<"Successfully synced inventory", r.count>>),
             exc |-> FALSE, result |-> "None"])

\* _should_update_product_in_shopify(product_template): a template without
\* remote timestamp, or one whose write_date is later than
\* x_shopify_synced_at or x_shopify_updated_at.
ShouldUpdateProductInShopify(d, i) ==
    \/ d.tmpl[i].x_shopify_updated_at = 0
    \/ d.tmpl[i].write_date >
           (IF d.tmpl[i].x_shopify_synced_at # 0 THEN d.tmpl[i].x_shopify_synced_at
            ELSE d.tmpl[i].x_shopify_updated_at)

\* The PUT requests of _update_shopify_variant for the variants vs.
RECURSIVE UpdateShopifyVariants(_, _)
UpdateShopifyVariants(d, vs) ==
    IF vs = <<>> THEN d
    ELSE UpdateShopifyVariants(
             LogSyncMessage(Request(d), "info", <<"Updated variant in Shopify", Head(vs)>>),
             Tail(vs))

\* _update_single_product_to_shopify(product_template): [db, exc].
UpdateSingleProductToShopify(d, i, out) ==
    IF ConfigError(d) # ""
    THEN [db |-> LogSyncMessage(d, "error",
                     <<"Unexpected error updating product", ConfigError(d)>>),
          exc |-> TRUE]
    ELSE IF i \in out.bad
    THEN [db |-> LogSyncMessage(Request(d), "error", <<"HTTP error updating product", i>>),
          exc |-> TRUE]
    ELSE [db |-> LogSyncMessage(
                     [UpdateShopifyVariants(Request(d), ShopifyVariants(d, i, 1))
                         EXCEPT !.tmpl[i].x_shopify_synced_at = CurrentTime(out),
                                !.tmpl[i].x_shopify_updated_at = CurrentTime(out),
                                !.tmpl[i].write_date = out.began],
                     "info", <<"Updated product in Shopify", d.tmpl[i].name>>),
          exc |-> FALSE]

\* The loop of update_products_to_shopify: [db, updated, skipped].
RECURSIVE UpdateLoop(_, _, _, _, _)
UpdateLoop(d, ids, out, updated, skipped) ==
    IF ids = <<>> THEN [db |-> d, updated |-> updated, skipped |-> skipped]
    ELSE LET i == Head(ids)
         IN  IF ShouldUpdateProductInShopify(d, i)
             THEN With(UpdateSingleProductToShopify(
                           LogSyncMessage(d, "info", <<"will update", d.tmpl[i].name>>),
                           i, out),
                       LAMBDA r :
                      IF r.exc
                      THEN UpdateLoop(LogSyncMessage(r.db, "error",
                                          <<"Error updating product", d.tmpl[i].name>>),
                                      Tail(ids), out, updated, skipped)
                      ELSE UpdateLoop(r.db, Tail(ids), out, updated + 1, skipped))
             ELSE UpdateLoop(LogSyncMessage(d, "info",
                                 <<"is up to date, skipping", d.tmpl[i].name>>),
                             Tail(ids), out, updated, skipped + 1)

\* The domain of update_products_to_shopify: the tagged templates, and
\* after a first outbound update only those written since.
RECURSIVE UpdateDomain(_, _)
UpdateDomain(d, ids) ==
    IF ids = <<>> THEN <<>>
    ELSE IF \/ d.last_odoo_to_shopify_sync = 0
            \/ d.tmpl[Head(ids)].write_date > d.last_odoo_to_shopify_sync
         THEN <<Head(ids)>> \o UpdateDomain(d, Tail(ids))
         ELSE UpdateDomain(d, Tail(ids))

\* The templates the search of update_products_to_shopify returns.
UpdateSelection(d) == FirstN(UpdateDomain(d, TemplatesWhere(d, TRUE, 1)), UpdateLimit)

\* update_products_to_shopify(): [db, exc, result].
UpdateProductsToShopify(d0, out) ==
    LET d1 == [LogSyncMessage(d0, "info", <<"Starting product updates to Shopify">>)
                  EXCEPT !.sync_status = "running"]
        d2 == LogSyncMessage(d1, "info",
                  <<IF d1.last_odoo_to_shopify_sync # 0
                    THEN "Looking for products modified since"
                    ELSE "No previous sync found, checking all products">>)
    IN  IF out.fails = "batch"
        THEN Reraise(d1, "Error during product updates")
        ELSE With(UpdateLoop(d2, UpdateSelection(d2), out, 0, 0),
                  LAMBDA r :
            [db |-> LogSyncMessage(
                        [r.db EXCEPT !.sync_status = "completed",
                                     !.last_sync_date = CurrentTime(out),
                                     !.last_odoo_to_shopify_sync = CurrentTime(out)],
                        "info", <<"Successfully updated", r.updated, r.skipped>>),
             exc |-> FALSE, result |-> "None"])

(***************************************************************************)
(* Remote payloads the invocations are given.                              *)
(***************************************************************************)
Titles == <<"Widget", "Gadget", "Gizmo", "Doohickey">>

OrderNames == <<"#1001", "#1002", "#1003", "#1004">>

VendorNames == {"", "Acme", "Bolt"}

PriceStrings == {"9.99", "invalid_price"}

\* The values of financial_status; "" is a payload without the key.
FinancialStatuses == {"paid", "cancelled", "pending", "partially_paid", ""}

\* The store calls of _save_single_order that can raise.
OrderSteps == {"customer", "header", "lines", "confirm", "invoice"}

ProductIds == 1..MaxPid

OrderIds == 1..MaxOid

Stamps == 1..MaxT

\* A remote variant {id, price, weight, barcode}, and the store call that
\* raises while it is saved.
RemoteVariantOf(id, price, weight, barcode, fails) ==
    [id |-> id, price |-> price, barcode |-> barcode, weight |-> weight,
     fails |-> fails]

\* A remote variant without barcode and weight, saved without a fault.
RemoteVariant(id, price) == RemoteVariantOf(id, price, 0, "", "none")

\* A remote product {id, title, status, updated_at, variants} without vendor
\* and product_type.
RemoteProductOf(id, title, variants) ==
    [id |-> id, title |-> title, vendor |-> "", product_type |-> "",
     status |-> "active", updated_at |-> 1, variants |-> variants]

\* A remote product {id, title, vendor, product_type, status, updated_at,
\* variants: [one variant]}.
RemoteProduct(id, title, vendor, t, price) ==
    [id |-> id, title |-> title, vendor |-> vendor, product_type |-> "",
     status |-> "active", updated_at |-> t,
     variants |-> <<RemoteVariant(id, price)>>]

\* A remote order {id, name, email, financial_status, updated_at,
\* line_items: [one line item]}.  raises is the store call that raises
\* while the order is reconciled; a line item with a price float() rejects
\* is what raises at "lines".
RemoteOrder(id, status, t, raises) ==
    [id |-> id, name |-> OrderNames[id], email |-> "buyer@example.com",
     financial_status |-> status, updated_at |-> t, raises |-> raises,
     line_items |-> <<[id |-> id, variant_id |-> id, title |-> "Item", quantity |-> 1,
                       price |-> IF raises = "lines" THEN "invalid_price" ELSE "9.99"]>>]

\* The payloads handed to a single product reconciliation: two remote ids
\* may carry the same title.
ProductInputs ==
    {RemoteProduct(id, Titles[n], v, 1, "9.99") :
        id \in ProductIds, n \in 1..2, v \in {"", "Acme"}}

\* The payloads of the vendor scenarios: every product keeps its title and
\* changes its vendor.
VendorInputs ==
    {RemoteProduct(id, Titles[id], v, 1, "9.99") : id \in ProductIds, v \in VendorNames}

\* The products of a batch handed to save_products_to_odoo.
BatchProducts ==
    {RemoteProduct(id, Titles[id], "", 1, pr) : id \in ProductIds, pr \in PriceStrings}

\* The products of a fetched page.
PageProducts ==
    {RemoteProduct(id, Titles[id], "", t, "9.99") : id \in ProductIds, t \in Stamps}

VariantIds == 1..MaxVid

Weights == {0, 2}

Barcodes == {"", "B1", "B2"}

\* The store calls of _save_product_variant that can raise.
VariantFaults == {"none", "write", "create", "minimal"}

\* The variants handed to a direct call of _save_product_variant.
VariantInputs ==
    {RemoteVariantOf(id, "9.99", w, b, f) :
        id \in VariantIds, w \in Weights, b \in {"", "B1"}, f \in VariantFaults}

\* The variant lists of a remote product: one variant with any price, weight
\* and barcode, or several plain variants with distinct ids.
VariantLists ==
    {<<RemoteVariantOf(id, pr, w, b, "none")>> :
        id \in VariantIds, pr \in ValidPrices, w \in Weights, b \in Barcodes}
    \cup {<<RemoteVariant(i, "9.99"), RemoteVariant(j, "9.99")>> :
             <<i, j>> \in {ij \in VariantIds \X VariantIds : ij[1] # ij[2]}}

\* The payloads of the variant scenarios: every product keeps its title.
VariantProducts ==
    {RemoteProductOf(id, Titles[id], vs) : id \in ProductIds, vs \in VariantLists}

\* The payloads of the scenarios in which a store call fails while the
\* single variant of a product is saved.
FaultyProducts ==
    {RemoteProductOf(id, Titles[id], <<RemoteVariantOf(v, "9.99", 0, "", f)>>) :
        id \in ProductIds, v \in VariantIds, f \in VariantFaults}

\* The payloads handed to a single order reconciliation.
OrderInputs ==
    {RemoteOrder(id, st, 1, "none") : id \in OrderIds, st \in FinancialStatuses}

\* The orders of a batch handed to save_orders_to_odoo.
BatchOrders ==
    {RemoteOrder(id, st, 1, "none") : id \in OrderIds, st \in {"paid", "pending"}}

\* The orders of a fetched page.
PageOrders ==
    {RemoteOrder(id, "pending", t, "none") : id \in OrderIds, t \in Stamps}

\* What the store and the remote side do during one outbound invocation.
\* fails: "batch" when a store call outside the per-record try raises;
\* bad: the templates for which the first HTTP request fails; began, now:
\* the tick the transaction of the invocation began at and the tick its
\* pushes happen at; with_id: the response to a created product carries its
\* id.
OutboundFaults == {"none", "batch"}

\* The ticks of the seconds 1..MaxT.
Ticks == TicksPerSecond..(TicksPerSecond * MaxT)

\* The tick a transaction began at and a later tick of it.
Clocks == {c \in [began : Ticks, now : Ticks] : c.began <= c.now}

ExportOutcomes ==
    {[fails |-> f, bad |-> b, began |-> c.began, now |-> c.now, with_id |-> w] :
        f \in OutboundFaults, b \in SUBSET ProductIds, c \in Clocks, w \in BOOLEAN}

InventoryOutcomes == [fails : OutboundFaults, bad : SUBSET ProductIds, now : Ticks]

UpdateOutcomes ==
    {[fails |-> f, bad |-> b, began |-> c.began, now |-> c.now] :
        f \in OutboundFaults, b \in SUBSET ProductIds, c \in Clocks}

\* Sequences of at most n elements of S.
RECURSIVE SeqsUpTo(_, _)
SeqsUpTo(S, n) ==
    IF n = 0 THEN {<<>>}
    ELSE LET shorter == SeqsUpTo(S, n - 1)
         IN  shorter \cup {Append(q, x) : q \in {r \in shorter : Len(r) = n - 1}, x \in S}

\* A page of at most n entities as the remote API returns it for
\* updated_at_min = since with order = 'updated_at asc': every entity at
\* most once, none older than since, oldest first.
Pages(S, n, since) ==
    {b \in SeqsUpTo(S, n) :
        /\ \A i \in 1..Len(b) : b[i].updated_at >= since
        /\ \A i, j \in 1..Len(b) : i < j =>
               b[i].id # b[j].id /\ b[i].updated_at <= b[j].updated_at}

\* What one fetch can come to: a page, or an error raised by the request.
FetchesAt(pages, instants) ==
    {[kind |-> "ok", batch |-> b, now |-> n] : b \in pages, n \in instants}
        \cup {[kind |-> k, batch |-> <<>>, now |-> n] :
                 k \in {"http_error", "network_error"}, n \in instants}

\* The fetches of invocations that all read the same instant off the clock.
Fetches(pages) == FetchesAt(pages, {1})

ProductBatches == Pages(BatchProducts, MaxPid, 0)

ProductFetches == [since \in 0..(MaxT + 1) |-> Fetches(Pages(PageProducts, MaxPid, since))]

OrderFetches == [since \in 0..MaxT |-> Fetches(Pages(PageOrders, MaxOid, since))]

\* The catalogue of the remote shop: for every remote product id the instant
\* of its last update, 0 while the shop has no such product.
Catalogues == [ProductIds -> 0..MaxT]

\* The products of a catalogue as the API delivers them.
CatalogueProducts(remote) ==
    {RemoteProduct(id, Titles[id], "", remote[id], "9.99") :
        id \in {i \in DOMAIN remote : remote[i] # 0}}

\* The 'limit' parameter of fetch_single_batch_products.
Limits == 1..MaxPid

\* An API that ignores updated_at_min.
UnfilteredPages(remote, n, since) ==
    LET all == CatalogueProducts(remote)
    IN  {b \in Pages(all, n, 0) :
            /\ Len(b) = IF Cardinality(all) < n THEN Cardinality(all) ELSE n
            /\ \A p \in all \ Range(b) :
                   \A i \in 1..Len(b) : b[i].updated_at <= p.updated_at}

\* The answer of the API to limit = n, updated_at_min = since,
\* order = 'updated_at asc': the n oldest of the products not older than
\* since, oldest first; products of one instant come in any order.
CataloguePages(remote, n, since) ==
    LET all == {p \in CatalogueProducts(remote) : p.updated_at >= since}
    IN  {b \in Pages(all, n, since) :
            /\ Len(b) = IF Cardinality(all) < n THEN Cardinality(all) ELSE n
            /\ \A p \in all \ Range(b) :
                   \A i \in 1..Len(b) : b[i].updated_at <= p.updated_at}

\* A batch of orders in which the reconciliation of order k raises at the
\* given store call (k = 0: none raises).
WithFault(b, k, step) ==
    [i \in 1..Len(b) |->
        IF i = k THEN RemoteOrder(b[i].id, b[i].financial_status, b[i].updated_at, step)
        ELSE b[i]]

OrderBatches ==
    LET plain == Pages(BatchOrders, MaxOid, 0)
    IN  plain \cup {WithFault(b, k, step) :
                      b \in plain \ {<<>>}, k \in 1..MaxOid, step \in OrderSteps}

(***************************************************************************)
(* The state after construction, and the invocations.                      *)
(***************************************************************************)
\* A product created by hand in the back office: no default_code.
ManualTemplate(name) ==
    [name |-> name, default_code |-> NoCode, categ_id |-> 0, purchase_ok |-> FALSE,
     is_published |-> FALSE, x_shopify_updated_at |-> 0, x_shopify_synced_at |-> 0,
     write_date |-> 0, dropship |-> FALSE, seller_ids |-> <<>>]

InitialDbs ==
    {EmptyDb, [EmptyDb EXCEPT !.tmpl = <<ManualTemplate(Titles[1])>>]}

\* A template created by hand that already carries an external-id tag, and
\* a variant created by hand for a template.
TaggedTemplate(id) == [ManualTemplate(Titles[id]) EXCEPT !.default_code = ShopifyTag(id)]

ManualVariant(t) ==
    [product_tmpl_id |-> t, default_code |-> NoCode, list_price |-> "1.0",
     weight |-> 0, barcode |-> ""]

\* The stores of the direct variant calls: two templates, the first with
\* up to two variants created by hand.
VariantDbs ==
    {[EmptyDb EXCEPT !.tmpl = <<TaggedTemplate(1), TaggedTemplate(2)>>,
                     !.variant = [i \in 1..k |-> ManualVariant(1)]] : k \in 0..2}

\* An internal reference given by hand: a default_code that is no
\* external-id tag.
OwnCode == <<"SKU-", 1>>

\* The stores of the adoption scenarios: one template created by hand,
\* without default_code or with an internal reference of its own.
AdoptionDbs ==
    {[EmptyDb EXCEPT !.tmpl = <<[ManualTemplate(Titles[1]) EXCEPT !.default_code = c]>>] :
        c \in {NoCode, OwnCode}}

\* A template as the store holds it once it was written at tick t.
WrittenAt(r, t) == [r EXCEPT !.write_date = t]

\* The stores of the outbound scenarios: a template for every title in
\* use, written at the first tick, those in synced already exported and
\* with their variant, with or without an access token.
OutboundDbs ==
    {[EmptyDb EXCEPT
         !.access_token = a,
         !.tmpl = [i \in ProductIds |->
                      WrittenAt(IF i \in synced THEN TaggedTemplate(i)
                                ELSE ManualTemplate(Titles[i]),
                                TicksPerSecond)],
         !.variant = [i \in ProductIds |->
                         IF i \in synced
                         THEN NewVariant(i, RemoteVariant(i, "9.99"), "")
                         ELSE ManualVariant(i)]] :
        a \in {"", EmptyDb.access_token}, synced \in SUBSET ProductIds}

\* A store with more tagged templates than one search of
\* update_products_to_shopify returns, all written at the first tick.
BulkTitles ==
    <<
      "Item 01", "Item 02", "Item 03", "Item 04", "Item 05", "Item 06",
      "Item 07", "Item 08", "Item 09", "Item 10", "Item 11", "Item 12",
      "Item 13", "Item 14", "Item 15", "Item 16", "Item 17", "Item 18",
      "Item 19", "Item 20", "Item 21" >>

BulkDb ==
    [EmptyDb EXCEPT
        !.tmpl = [i \in 1..(UpdateLimit + 1) |->
                     WrittenAt([ManualTemplate(BulkTitles[i])
                                   EXCEPT !.default_code = ShopifyTag(i)],
                               TicksPerSecond)]]

\* ret is what the last invocation was and what it gave back.
NoCall == [op |-> "none", arg |-> <<>>, exc |-> FALSE, result |-> 0]

Init ==
    /\ db \in InitialDbs
    /\ ret = NoCall

\* The store an invocation starts from: the log lines of the invocation
\* before are no longer kept.
Begin(d) == [d EXCEPT !.sync_log = <<>>, !.logger = <<>>, !.requests = 0]

\* What ret keeps of a batch: the ids and the timestamps, in order.
Summary(batch) == [i \in 1..Len(batch) |-> <<batch[i].id, batch[i].updated_at>>]

\* A direct call of _save_single_product, as the tests make it.
ReconcileProduct(p) ==
    \E r \in {SaveSingleProduct(Begin(db), p)} :
        /\ db' = r.db
        /\ ret' = [op |-> "_save_single_product", arg |-> p, exc |-> r.exc,
                   result |-> [id |-> r.id, skipped |-> r.skipped]]

\* A direct call of _save_product_variant, as the tests make it.
SaveVariant(t, v) ==
    /\ t \in 1..Len(db.tmpl)
    /\ \E r \in {SaveProductVariant(Begin(db), t, v)} :
        /\ db' = r.db
        /\ ret' = [op |-> "_save_product_variant", arg |-> <<t, v>>, exc |-> r.exc,
                   result |-> r.id]

\* A direct call of save_products_to_odoo.
ReconcileProducts(batch) ==
    /\ db' = SaveProductsToOdoo(Begin(db), Begin(db), batch)
    /\ ret' = [op |-> "save_products_to_odoo", arg |-> batch, exc |-> FALSE,
               result |-> 0]

\* One scheduler tick of auto_sync_shopify_products.
SyncProducts(fetch) ==
    \E r \in {AutoSyncShopifyProducts(Begin(db), fetch)} :
        /\ db' = r.db
        /\ ret' = [op |-> "auto_sync_shopify_products",
                   arg |-> [kind |-> fetch.kind, batch |-> Summary(fetch.batch),
                            since |-> db.last_updated_at, now |-> fetch.now],
                   exc |-> FALSE, result |-> r.result]

\* A call of _sync_products_chunked(updated_at_min=since).
SyncChunked(since, fetch) ==
    \E r \in {SyncProductsChunked(Begin(db), fetch)} :
        /\ db' = r.db
        /\ ret' = [op |-> "_sync_products_chunked",
                   arg |-> [kind |-> fetch.kind, batch |-> Summary(fetch.batch),
                            since |-> since],
                   exc |-> r.exc, result |-> r.result]

\* A direct call of _save_single_order.  An order that is cancelled
\* remotely is created anew at every delivery: MaxOrders caps the table.
MaxOrders == 3

ReconcileOrder(o) ==
    \E r \in {SaveSingleOrder(Begin(db), o)} :
        /\ Len(db.order) < MaxOrders
        /\ db' = r.db
        /\ ret' = [op |-> "_save_single_order", arg |-> o, exc |-> r.exc,
                   result |-> r.id]

\* A direct call of save_orders_to_odoo.
ReconcileOrders(batch) ==
    /\ db' = SaveOrdersToOdoo(Begin(db), batch)
    /\ ret' = [op |-> "save_orders_to_odoo", arg |-> batch, exc |-> FALSE,
               result |-> 0]

\* One scheduler tick of auto_sync_shopify_orders.
SyncOrders(fetch) ==
    \E r \in {AutoSyncShopifyOrders(Begin(db), fetch)} :
        /\ db' = r.db
        /\ ret' = [op |-> "auto_sync_shopify_orders",
                   arg |-> [kind |-> fetch.kind, batch |-> Summary(fetch.batch),
                            since |-> db.orders_last_updated_at, now |-> fetch.now],
                   exc |-> FALSE, result |-> r.result]

\* The inbound entry points one statement group at a time.  While an
\* invocation runs, ret is its frame: the records of the batch still to be
\* reconciled, what the loop has counted, and the store as it was
\* committed when the invocation began.
Running == ret.op = "running"

Frame(entry, fetch, since, batch, count, seen, committed) ==
    [op |-> "running", entry |-> entry,
     arg |-> [kind |-> fetch.kind, batch |-> Summary(fetch.batch), since |-> since,
              now |-> fetch.now],
     exc |-> FALSE, result |-> 0,
     pending |-> batch, whole |-> fetch.batch, count |-> count, seen |-> seen,
     committed |-> committed, now |-> fetch.now]

\* auto_sync_shopify_orders up to the call of save_orders_to_odoo; an
\* invocation whose fetch fails or yields nothing ends here.
OrdersBegin(fetch) ==
    /\ ~Running
    /\ \E d0 \in {Begin(db)} :
       \E f \in {FetchSingleBatch(
                    LogSyncMessage(
                        [LogSyncMessage(d0, "info", <<"Starting Shopify orders synchronization">>)
                            EXCEPT !.sync_status = "running"],
                        "info", <<IF d0.orders_last_updated_at = 0 THEN "First sync"
                                  ELSE "Incremental sync", d0.orders_last_updated_at>>),
                    fetch)} :
          IF f.exc \/ f.batch = <<>>
          THEN \E r \in {AutoSyncShopifyOrders(d0, fetch)} :
                  /\ db' = r.db
                  /\ ret' = [op |-> "auto_sync_shopify_orders",
                             arg |-> [kind |-> fetch.kind, batch |-> Summary(fetch.batch),
                                      since |-> db.orders_last_updated_at, now |-> fetch.now],
                             exc |-> FALSE, result |-> r.result]
          ELSE /\ db' = IF LatestUpdatedAt(f.batch) # 0
                        THEN LogSyncMessage(
                                 [f.db EXCEPT !.orders_last_updated_at = LatestUpdatedAt(f.batch)],
                                 "info", <<"Updated last orders sync timestamp">>)
                        ELSE f.db
               /\ ret' = Frame("auto_sync_shopify_orders", fetch, db.orders_last_updated_at,
                               f.batch, 0, {}, db)

\* One turn of the loop of save_orders_to_odoo.
OrdersStep ==
    /\ Running /\ ret.entry = "auto_sync_shopify_orders" /\ ret.pending # <<>>
    /\ \E r \in {SaveOrdersLoop(db, <<Head(ret.pending)>>, ret.count)} :
        /\ db' = r.db
        /\ ret' = [ret EXCEPT !.pending = Tail(@), !.count = r.success_count]

\* The end of save_orders_to_odoo and of auto_sync_shopify_orders.
OrdersEnd ==
    /\ Running /\ ret.entry = "auto_sync_shopify_orders" /\ ret.pending = <<>>
    /\ db' = LogSyncMessage(
                 [LogSyncMessage(db,
                      IF ret.count = Len(ret.whole) THEN "info" ELSE "warning",
                      <<IF ret.count = Len(ret.whole) THEN "Successfully synced orders"
                        ELSE "Successfully synced orders out of", ret.count, Len(ret.whole)>>)
                     EXCEPT !.sync_status = "completed", !.last_sync_date = ret.now],
                 "info", <<"Successfully synced", Len(ret.whole)>>)
    /\ ret' = [op |-> ret.entry, arg |-> ret.arg, exc |-> FALSE, result |-> "None"]

\* auto_sync_shopify_products up to the call of save_products_to_odoo.
ProductsBegin(fetch) ==
    /\ ~Running
    /\ \E d0 \in {Begin(db)} :
       \E f \in {FetchSingleBatch(
                    LogSyncMessage(
                        [LogSyncMessage(d0, "info", <<"Starting Shopify products synchronization">>)
                            EXCEPT !.sync_status = "running"],
                        "info", <<IF d0.last_updated_at = 0 THEN "First sync"
                                  ELSE "Incremental sync", d0.last_updated_at>>),
                    fetch)} :
          IF f.exc \/ f.batch = <<>>
          THEN \E r \in {AutoSyncShopifyProducts(d0, fetch)} :
                  /\ db' = r.db
                  /\ ret' = [op |-> "auto_sync_shopify_products",
                             arg |-> [kind |-> fetch.kind, batch |-> Summary(fetch.batch),
                                      since |-> db.last_updated_at, now |-> fetch.now],
                             exc |-> FALSE, result |-> r.result]
          ELSE /\ db' = f.db
               /\ ret' = Frame("auto_sync_shopify_products", fetch, db.last_updated_at,
                               f.batch, 0, {}, db)

\* One turn of the loop of save_products_to_odoo.
ProductsStep ==
    /\ Running /\ ret.entry = "auto_sync_shopify_products" /\ ret.pending # <<>>
    /\ db' = SaveProductsLoop(db, Begin(ret.committed), <<Head(ret.pending)>>, ret.seen)
    /\ ret' = [ret EXCEPT !.pending = Tail(@), !.seen = @ \cup {Head(ret.pending).id}]

\* The end of auto_sync_shopify_products: the watermark, then the status.
ProductsEnd ==
    /\ Running /\ ret.entry = "auto_sync_shopify_products" /\ ret.pending = <<>>
    /\ \E latest \in {LatestUpdatedAt(ret.whole)} :
        db' = LogSyncMessage(
                  [LogSyncMessage(
                       IF latest # 0
                       THEN LogSyncMessage(
                                [db EXCEPT !.last_updated_at =
                                               NextProductWatermark(latest, ret.arg.since)],
                                "info", <<"Updated last sync timestamp">>)
                       ELSE db,
                       "info", <<"Processed batch", Len(ret.whole)>>)
                      EXCEPT !.sync_status = "completed", !.last_sync_date = ret.now],
                  "info", <<"Successfully synced", Len(ret.whole)>>)
    /\ ret' = [op |-> ret.entry, arg |-> ret.arg, exc |-> FALSE, result |-> "None"]

\* The process stops in the middle of an invocation: its transaction is
\* never committed.
Stop ==
    /\ Running
    /\ db' = ret.committed
    /\ ret' = [op |-> "stopped", arg |-> ret.arg, exc |-> TRUE, result |-> 0]

\* One scheduler tick of auto_sync_shopify_products against the catalogue of
\* the remote shop.
SyncCatalogue(limit) ==
    \E b \in CataloguePages(db.remote, limit, db.last_updated_at) :
        SyncProducts([kind |-> "ok", batch |-> b, now |-> 1])

\* A product of the remote shop is created or modified: its update instant
\* becomes the present one, which no instant of the catalogue and no stored
\* watermark is ahead of.
RemoteUpdate(id, t) ==
    /\ \A i \in DOMAIN db.remote : db.remote[i] <= t
    /\ db.remote[id] < t
    /\ db.last_updated_at <= t
    /\ db' = [db EXCEPT !.remote[id] = t]
    /\ ret' = [op |-> "remote_update", arg |-> <<id, t>>, exc |-> FALSE, result |-> 0]

\* The HTTP layer.  What an attempt of a request comes to: a response with
\* its status, or no response at all.
ConnectionError == 0

ReadTimeout == 1

\* Status 413 answered with a Retry-After header.
RetryAfter413 == 413

MaxResponses == 5

Outcomes == {200, 404, RetryAfter413, 429, 503, ConnectionError, ReadTimeout}

\* Retry(total=3, backoff_factor=1, status_forcelist=[429, 500, 502, 503,
\* 504], allowed_methods=["GET"]), mounted on the session of the single
\* batch fetches.
RetryStrategy ==
    [total |-> 3, status_forcelist |-> {429, 500, 502, 503, 504},
     allowed_methods |-> {"GET"}]

\* A retry policy that treats every method as the single batch fetches
\* treat GET.
RetryEveryMethod ==
    [total |-> 3, status_forcelist |-> {429, 500, 502, 503, 504},
     allowed_methods |-> {"GET", "POST", "PUT"}]

\* requests.get / requests.post / requests.put outside a session: the
\* adapter's default, no retry.
DefaultRetries ==
    [total |-> 0, status_forcelist |-> {},
     allowed_methods |-> {"GET", "PUT"}]

\* Whether the policy sends the request again after this outcome: always
\* after a failed connection; after a read timeout, a status of the
\* forcelist or a Retry-After answer only for an allowed method.
IsRetry(method, retry, outcome) ==
    IF outcome = ConnectionError THEN TRUE
    ELSE /\ method \in retry.allowed_methods
         /\ \/ outcome = ReadTimeout
            \/ outcome \in retry.status_forcelist
            \/ outcome = RetryAfter413

\* A request is handed to the HTTP layer with its retry policy.
Sending == ret.op = "sending"

SendRequest(method, retry) ==
    /\ ~Sending
    /\ db' = Begin(db)
    /\ ret' = [op |-> "sending", arg |-> [method |-> method, outcomes |-> <<>>],
               exc |-> FALSE, result |-> 0, retry |-> retry, left |-> retry.total]

\* http.get of fetch_single_batch_products / fetch_single_batch_orders.
FetchRequest == SendRequest("GET", RetryStrategy)

\* requests.post / requests.put of the outbound pushes.
PushRequest(method) == SendRequest(method, DefaultRetries)

\* One attempt of the request meets its outcome: the policy either sends
\* the request again, one retry less left, or hands the outcome back.
Attempt(outcome) ==
    /\ Sending
    /\ Len(ret.arg.outcomes) < MaxResponses
    /\ db' = [db EXCEPT !.requests = @ + 1]
    /\ ret' = IF ret.left > 0 /\ IsRetry(ret.arg.method, ret.retry, outcome)
              THEN [ret EXCEPT !.arg.outcomes = Append(@, outcome), !.left = @ - 1]
              ELSE [op |-> "http",
                    arg |-> [ret.arg EXCEPT !.outcomes = Append(@, outcome)],
                    exc |-> outcome # 200,
                    result |-> Len(ret.arg.outcomes) + 1]

\* Token pagination.  The listing the remote API pages through has
\* listing[k] products on its page k; the token of page k is k, and a request
\* without page_info is answered with page 1.
MaxPages == 3

MaxRequests == 5

Listings == UNION {[1..n -> 0..1] : n \in 0..MaxPages}

\* The Link headers a response for page k of n pages can carry, each a
\* sequence of links [rel, page_info] in the order they are written; <<>> is
\* the missing header of a listing of one page.
LinkHeaders(n, k) ==
    LET previous == [rel |-> "previous", page_info |-> k - 1]
        next == [rel |-> "next", page_info |-> k + 1]
    IN  IF k > 1 /\ k < n THEN {<<previous, next>>, <<next, previous>>}
        ELSE IF k > 1 THEN {<<previous>>}
        ELSE IF k < n THEN {<<next>>}
        ELSE {<<>>}

\* parse_next_page_token: re.search(r'page_info=([^&>]+)', link_header), the
\* page_info of the first link of the header whatever its rel; 0 (None)
\* when there is no header.
ParseNextPageToken(link_header) ==
    IF link_header = <<>> THEN 0 ELSE link_header[1].page_info

\* The frame of a paginated fetch: page_info of the next request (0: none),
\* the loop counter, the pages requested so far, the pages whose products
\* were collected, and the Link header of the last response.
Paging == ret.op = "paging"

PagingFrame(entry, listing, max_pages) ==
    [op |-> "paging", entry |-> entry,
     arg |-> [listing |-> listing, max_pages |-> max_pages],
     exc |-> FALSE, result |-> 0,
     page_info |-> 0, page |-> 1, visited |-> <<>>, all_products |-> <<>>,
     link |-> <<>>]

\* The return of a paginated fetch.
Fetched(frame) ==
    [op |-> frame.entry, arg |-> frame.arg, exc |-> FALSE,
     result |-> [all_products |-> frame.all_products, visited |-> frame.visited,
                 link |-> frame.link]]

\* fetch_shopify_products_chunk up to its loop; a loop that is not entered
\* returns at once.
FetchChunk(listing, max_pages) ==
    /\ ~Paging
    /\ db' = Begin(db)
    /\ ret' = IF 1 <= max_pages
              THEN PagingFrame("fetch_shopify_products_chunk", listing, max_pages)
              ELSE Fetched(PagingFrame("fetch_shopify_products_chunk", listing, max_pages))

\* fetch_shopify_products up to its loop, which has no page cap (max_pages 0
\* stands for none).
FetchAll(listing) ==
    /\ ~Paging
    /\ db' = Begin(db)
    /\ ret' = PagingFrame("fetch_shopify_products", listing, 0)

\* One turn of the loop: the request, the break on an empty page, the
\* collection of the products, the break on a missing token, the next
\* params; and the return when the loop is left.
PageRequest ==
    /\ Paging
    /\ db.requests < MaxRequests
    /\ \E k \in {IF ret.page_info = 0 THEN 1 ELSE ret.page_info} :
       \E link \in LinkHeaders(Len(ret.arg.listing), k) :
       \E products \in {IF k \in DOMAIN ret.arg.listing THEN ret.arg.listing[k] ELSE 0} :
       \E asked \in {[ret EXCEPT !.visited = Append(@, k), !.link = link]} :
          /\ db' = IF products = 0 THEN Request(db)
                    ELSE LogSyncMessage(Request(db), "info", <<"Page fetched", ret.page>>)
          /\ ret' =
               IF products = 0 THEN Fetched(asked)
               ELSE IF ParseNextPageToken(link) = 0
                    THEN Fetched([asked EXCEPT !.all_products = Append(@, k)])
               ELSE IF ret.entry = "fetch_shopify_products_chunk"
                       /\ ~(ret.page + 1 <= ret.arg.max_pages)
                    THEN Fetched([asked EXCEPT !.all_products = Append(@, k)])
               ELSE [asked EXCEPT !.all_products = Append(@, k),
                                  !.page_info = ParseNextPageToken(link),
                                  !.page = @ + 1]

\* One scheduler tick of export_products_to_shopify.
ExportProducts(out) ==
    \E r \in {ExportProductsToShopify(Begin(db), out)} :
        /\ db' = r.db
        /\ ret' = [op |-> "export_products_to_shopify", arg |-> out, exc |-> r.exc,
                   result |-> r.result]

\* One scheduler tick of sync_inventory_to_shopify.
SyncInventory(out) ==
    \E r \in {SyncInventoryToShopify(Begin(db), out)} :
        /\ db' = r.db
        /\ ret' = [op |-> "sync_inventory_to_shopify", arg |-> out, exc |-> r.exc,
                   result |-> r.result]

\* The instants the store holds: no clock reading is behind them.
StoredInstants(d) ==
    {d.last_odoo_to_shopify_sync}
        \cup {d.tmpl[i].write_date : i \in 1..Len(d.tmpl)}
        \cup {d.tmpl[i].x_shopify_synced_at : i \in 1..Len(d.tmpl)}

Present(t) == \A s \in StoredInstants(db) : s <= t

\* A user edits template i in the back office, in a transaction that began
\* at tick t.
LocalWrite(i, t) ==
    /\ i \in 1..Len(db.tmpl)
    /\ Present(t)
    /\ db' = [db EXCEPT !.tmpl[i].write_date = t]
    /\ ret' = [op |-> "write", arg |-> <<i, t>>, exc |-> FALSE, result |-> 0]

\* One scheduler tick of update_products_to_shopify.
UpdateProducts(out) ==
    \E r \in {UpdateProductsToShopify(Begin(db), out)} :
        /\ db' = r.db
        /\ ret' = [op |-> "update_products_to_shopify", arg |-> out, exc |-> r.exc,
                   result |-> r.result]

(***************************************************************************)
(* Specifications: the same store under the invocations of one concern.    *)
(***************************************************************************)
\* Single product reconciliations; a hand-made product may be there first.
NextProduct == \E p \in ProductInputs : ReconcileProduct(p)

SpecProduct == Init /\ [][NextProduct]_vars

InitEmpty ==
    /\ db = EmptyDb
    /\ ret = NoCall

\* Single product reconciliations over a template created by hand.
InitAdopt ==
    /\ db \in AdoptionDbs
    /\ ret = NoCall

SpecAdopt == InitAdopt /\ [][NextProduct]_vars

\* Products with several variants, and variants that change.
NextVariants == \E p \in VariantProducts : ReconcileProduct(p)

SpecVariants == InitEmpty /\ [][NextVariants]_vars

\* Products whose variant may meet a failing store call.
NextRelink == \E p \in FaultyProducts : ReconcileProduct(p)

SpecRelink == InitEmpty /\ [][NextRelink]_vars

\* Direct calls of _save_product_variant on hand-made templates.
InitVariant ==
    /\ db \in VariantDbs
    /\ ret = NoCall

NextVariant == \E t \in 1..2, v \in VariantInputs : SaveVariant(t, v)

SpecVariant == InitVariant /\ [][NextVariant]_vars

\* Single product reconciliations with changing vendors.
NextVendor == \E p \in VendorInputs : ReconcileProduct(p)

SpecVendor == InitEmpty /\ [][NextVendor]_vars

\* Batches of products.
NextBatch == \E b \in ProductBatches : ReconcileProducts(b)

SpecBatch == Init /\ [][NextBatch]_vars

\* The inbound scheduler entry points.
NextInbound ==
    \/ \E f \in ProductFetches[db.last_updated_at] : SyncProducts(f)
    \/ \E f \in OrderFetches[db.orders_last_updated_at] : SyncOrders(f)

SpecInbound == InitEmpty /\ [][NextInbound]_vars

\* The inbound product entry point and the chunked product sync.
NextChunked ==
    \/ \E f \in ProductFetches[db.last_updated_at] : SyncProducts(f)
    \/ \E since \in 0..MaxT : \E f \in ProductFetches[since] : SyncChunked(since, f)

SpecChunked == InitEmpty /\ [][NextChunked]_vars

\* The inbound scheduler entry points, with and without the access token
\* and the store URL configured.
ConfigDbs ==
    {[EmptyDb EXCEPT !.access_token = a, !.store_url = u] :
        a \in {"", EmptyDb.access_token}, u \in {"", EmptyDb.store_url}}

InitConfig ==
    /\ db \in ConfigDbs
    /\ ret = NoCall

SpecConfig == InitConfig /\ [][NextInbound]_vars

\* The inbound scheduler entry points, one statement group at a time.
NextSteps ==
    \/ \E f \in ProductFetches[db.last_updated_at] : ProductsBegin(f)
    \/ ProductsStep
    \/ ProductsEnd
    \/ \E f \in OrderFetches[db.orders_last_updated_at] : OrdersBegin(f)
    \/ OrdersStep
    \/ OrdersEnd
    \/ Stop

SpecSteps == InitEmpty /\ [][NextSteps]_vars

\* The product entry point run against the catalogue of a remote shop.
InitCatalogue ==
    /\ db \in {[EmptyDb EXCEPT !.remote = c] : c \in Catalogues}
    /\ ret = NoCall

NextCatalogue ==
    \/ \E limit \in Limits : SyncCatalogue(limit)
    \/ \E id \in ProductIds, t \in Stamps : RemoteUpdate(id, t)

SpecCatalogue == InitCatalogue /\ [][NextCatalogue]_vars

\* The requests of the fetches and of the pushes.
NextHttp ==
    \/ FetchRequest
    \/ \E method \in {"POST", "PUT"} : PushRequest(method)
    \/ \E outcome \in Outcomes : Attempt(outcome)

SpecHttp == InitEmpty /\ [][NextHttp]_vars

\* The paginated fetches.
NextPaging ==
    \/ \E listing \in Listings, max_pages \in 0..MaxPages : FetchChunk(listing, max_pages)
    \/ \E listing \in Listings : FetchAll(listing)
    \/ PageRequest

SpecPaging == InitEmpty /\ [][NextPaging]_vars

\* The pages of at most one record, the one of remote id 1.
OneRecord == {<<>>} \cup {<<(<<1, t>>)>> : t \in Stamps}

\* Every fetch of products and orders: the single batch of the scheduler
\* entry points, fetched with or without the configuration, and the
\* paginated ones.
NextFetches ==
    \/ \E f \in {g \in ProductFetches[db.last_updated_at] : Summary(g.batch) \in OneRecord} :
           SyncProducts(f)
    \/ \E f \in {g \in OrderFetches[db.orders_last_updated_at] : Summary(g.batch) \in OneRecord} :
           SyncOrders(f)
    \/ NextPaging

SpecFetches == InitConfig /\ [][NextFetches]_vars

\* The inbound scheduler entry points one statement group at a time, with
\* and without configuration, over batches of at most one record, the one
\* of remote id 1, whose reconciliation may fail, at changing readings of
\* the clock.
Since(pages, since) ==
    {b \in pages :
        Len(b) <= 1 /\ \A i \in 1..Len(b) : b[i].id = 1 /\ b[i].updated_at >= since}

NextStatus ==
    \/ \E f \in FetchesAt(Since(ProductBatches, db.last_updated_at), Stamps) : ProductsBegin(f)
    \/ ProductsStep
    \/ ProductsEnd
    \/ \E f \in FetchesAt(Since(OrderBatches, db.orders_last_updated_at), Stamps) : OrdersBegin(f)
    \/ OrdersStep
    \/ OrdersEnd

SpecStatus == InitConfig /\ [][NextStatus]_vars

\* The outbound scheduler entry points, under a clock that does not run
\* backwards.
InitOutbound ==
    /\ db \in OutboundDbs
    /\ ret = NoCall

NextOutbound ==
    \/ \E out \in ExportOutcomes : Present(out.began) /\ ExportProducts(out)
    \/ \E out \in InventoryOutcomes : Present(out.now) /\ SyncInventory(out)
    \/ \E out \in UpdateOutcomes : Present(out.began) /\ UpdateProducts(out)

SpecOutbound == InitOutbound /\ [][NextOutbound]_vars

\* The product pushes under a clock that does not run backwards, with the
\* edits of the back office in between.
InitPush ==
    /\ db \in {d \in OutboundDbs : d.access_token # ""} \cup {BulkDb}
    /\ ret = NoCall

NextPush ==
    \/ \E out \in ExportOutcomes : Present(out.began) /\ ExportProducts(out)
    \/ \E out \in UpdateOutcomes : Present(out.began) /\ UpdateProducts(out)
    \/ \E i \in ProductIds, t \in Ticks : LocalWrite(i, t)

SpecPush == InitPush /\ [][NextPush]_vars

\* Single order reconciliations.
NextOrder == \E o \in OrderInputs : ReconcileOrder(o)

SpecOrder == InitEmpty /\ [][NextOrder]_vars

\* Batches of orders, one of which may raise.
NextOrderBatch == \E b \in OrderBatches : ReconcileOrders(b)

SpecOrderBatch == InitEmpty /\ [][NextOrderBatch]_vars

\* The store an invocation of the log scenarios starts from: sync_log is a
\* stored field, so the lines of the invocations before are still there;
\* only the process logger and the request count start anew.
Resume(d) == [d EXCEPT !.logger = <<>>, !.requests = 0]

\* The longest stored log an invocation of the log scenarios starts from.
MaxLog == 4

\* save_products_to_odoo and save_orders_to_odoo on a store that keeps its
\* log from one invocation to the next.
LoggedProducts(batch) ==
    /\ Len(db.sync_log) <= MaxLog
    /\ db' = SaveProductsToOdoo(Resume(db), Resume(db), batch)
    /\ ret' = [op |-> "save_products_to_odoo", arg |-> batch, exc |-> FALSE,
               result |-> 0]

LoggedOrders(batch) ==
    /\ Len(db.sync_log) <= MaxLog
    /\ db' = SaveOrdersToOdoo(Resume(db), batch)
    /\ ret' = [op |-> "save_orders_to_odoo", arg |-> batch, exc |-> FALSE,
               result |-> 0]

NextLog ==
    \/ \E b \in ProductBatches : LoggedProducts(b)
    \/ \E b \in OrderBatches : LoggedOrders(b)

SpecLog == InitEmpty /\ [][NextLog]_vars

\* set_values of the settings form, or the tests' set_param, for the
\* auto-publish switch.
SetValues(shopify_auto_publish_website) ==
    /\ db' = [db EXCEPT !.auto_publish = StoredParam(shopify_auto_publish_website)]
    /\ ret' = [op |-> "set_values", arg |-> shopify_auto_publish_website,
               exc |-> FALSE, result |-> 0]

\* The remote statuses; "" is a product that carries none.
Statuses == {"active", "draft", "archived", ""}

PublishInputs ==
    {[RemoteProduct(id, Titles[id], "", 1, "9.99") EXCEPT !.status = s] :
        id \in ProductIds, s \in Statuses}

NextPublish ==
    \/ \E b \in BOOLEAN : SetValues(b)
    \/ \E p \in PublishInputs : ReconcileProduct(p)

SpecPublish == Init /\ [][NextPublish]_vars

\* The ids of remote line items: a line item has an id of its own, which is
\* no variant id, and names its variant in variant_id (0 for a custom item
\* that has none).
LineItemIds == {MaxVid + 1, MaxVid + 2}

LineItems ==
    {[id |-> i, variant_id |-> v, title |-> "Item", quantity |-> i - MaxVid,
      price |-> "9.99"] : i \in LineItemIds, v \in 0..MaxVid}

\* Orders of up to two line items.
LineOrders ==
    {[RemoteOrder(1, "pending", 1, "none") EXCEPT !.line_items = items] :
        items \in SeqsUpTo(LineItems, 2)}

\* Products are synchronised, so that their variants are in the store, and
\* orders for them come in.
NextLines ==
    \/ \E id \in ProductIds : ReconcileProduct(RemoteProduct(id, Titles[id], "", 1, "9.99"))
    \/ \E o \in LineOrders : ReconcileOrder(o)

SpecLines == InitEmpty /\ [][NextLines]_vars

\* Orders of two buyers and of a buyer without email, some cancelled (a
\* cancelled order is created again when it is delivered again), some with
\* a line item that makes the creation raise.
CustomerOrders ==
    {[RemoteOrder(id, st, 1, raises) EXCEPT !.email = e] :
        id \in OrderIds, st \in {"pending", "cancelled"},
        e \in {"", "buyer@example.com", "other@example.com"},
        raises \in {"none", "lines"}}

NextCustomer == \E o \in CustomerOrders : ReconcileOrder(o)

SpecCustomer == InitEmpty /\ [][NextCustomer]_vars

\* Invocations of different entry points that overlap.  Each has a frame
\* of its own in ret (what is left of its batch, the watermark it started
\* from, its counters); the store is the one they share, and one action is
\* one entry point going on by one group of store operations.  The log
\* lines and the request count of a step are not kept.
Interleaved == ret.op = "interleaved"

Idle ==
    [active |-> FALSE, pending |-> <<>>, whole |-> <<>>, since |-> 0, count |-> 0,
     seen |-> {}]

Busy(batch, since) ==
    [active |-> TRUE, pending |-> batch, whole |-> batch, since |-> since, count |-> 0,
     seen |-> {}]

NoFrames ==
    [op |-> "interleaved", arg |-> <<"", "">>, exc |-> FALSE, result |-> 0,
     products |-> Idle, orders |-> Idle, export |-> Idle]

\* auto_sync_shopify_products: the status, the fetch.
ProductsStart(batch) ==
    /\ Interleaved /\ ~ret.products.active
    /\ db' = Begin(FetchSingleBatch(
                       [db EXCEPT !.sync_status = "running"],
                       [kind |-> "ok", batch |-> batch, now |-> 1]).db)
    /\ ret' = [ret EXCEPT !.arg = <<"auto_sync_shopify_products", "start">>,
                          !.products = Busy(batch, db.last_updated_at)]

\* One turn of the loop of save_products_to_odoo.
ProductsSave ==
    /\ Interleaved /\ ret.products.active /\ ret.products.pending # <<>>
    /\ db' = Begin(SaveProductsLoop(db, db, <<Head(ret.products.pending)>>,
                                     ret.products.seen))
    /\ ret' = [ret EXCEPT !.arg = <<"auto_sync_shopify_products", "save">>,
                          !.products.pending = Tail(@),
                          !.products.seen = @ \cup {Head(ret.products.pending).id}]

\* The watermark and the status, after the loop.
ProductsFinish ==
    /\ Interleaved /\ ret.products.active /\ ret.products.pending = <<>>
    /\ db' = [db EXCEPT !.last_updated_at =
                            NextProductWatermark(LatestUpdatedAt(ret.products.whole),
                                                 ret.products.since),
                        !.sync_status = "completed", !.last_sync_date = 1]
    /\ ret' = [ret EXCEPT !.arg = <<"auto_sync_shopify_products", "finish">>,
                          !.products = Idle]

\* auto_sync_shopify_orders: the status, the fetch, the watermark.
OrdersStart(batch) ==
    /\ Interleaved /\ ~ret.orders.active
    /\ Len(db.order) + Len(batch) <= MaxOrders
    /\ db' = [Begin(FetchSingleBatch(
                        [db EXCEPT !.sync_status = "running"],
                        [kind |-> "ok", batch |-> batch, now |-> 1]).db)
                 EXCEPT !.orders_last_updated_at = LatestUpdatedAt(batch)]
    /\ ret' = [ret EXCEPT !.arg = <<"auto_sync_shopify_orders", "start">>,
                          !.orders = Busy(batch, db.orders_last_updated_at)]

\* One turn of the loop of save_orders_to_odoo.
OrdersSave ==
    /\ Interleaved /\ ret.orders.active /\ ret.orders.pending # <<>>
    /\ \E r \in {SaveOrdersLoop(db, <<Head(ret.orders.pending)>>, ret.orders.count)} :
        /\ db' = Begin(r.db)
        /\ ret' = [ret EXCEPT !.arg = <<"auto_sync_shopify_orders", "save">>,
                              !.orders.pending = Tail(@),
                              !.orders.count = r.success_count]

OrdersFinish ==
    /\ Interleaved /\ ret.orders.active /\ ret.orders.pending = <<>>
    /\ db' = [db EXCEPT !.sync_status = "completed", !.last_sync_date = 1]
    /\ ret' = [ret EXCEPT !.arg = <<"auto_sync_shopify_orders", "finish">>,
                          !.orders = Idle]

\* export_products_to_shopify: the status, the search.
ExportStart ==
    /\ Interleaved /\ ~ret.export.active
    /\ db' = [Begin(db) EXCEPT !.sync_status = "running"]
    /\ ret' = [ret EXCEPT !.arg = <<"export_products_to_shopify", "start">>,
                          !.export = Busy(FirstN(TemplatesWhere(db, FALSE, 1), ExportLimit), 0)]

\* One turn of its loop: _export_single_product of the next template found
\* by the search, whose first request fails or not.
ExportPush(fails) ==
    /\ Interleaved /\ ret.export.active /\ ret.export.pending # <<>>
    /\ \E i \in {Head(ret.export.pending)} :
          db' = Begin(ExportSingleProduct(db, i,
                          [fails |-> "none", bad |-> IF fails THEN {i} ELSE {},
                           began |-> TicksPerSecond, now |-> TicksPerSecond,
                           with_id |-> TRUE]).db)
    /\ ret' = [ret EXCEPT !.arg = <<"export_products_to_shopify", "push">>,
                          !.export.pending = Tail(@)]

ExportFinish ==
    /\ Interleaved /\ ret.export.active /\ ret.export.pending = <<>>
    /\ db' = [db EXCEPT !.sync_status = "completed", !.last_sync_date = 1]
    /\ ret' = [ret EXCEPT !.arg = <<"export_products_to_shopify", "finish">>,
                          !.export = Idle]

\* The batches of the overlapping invocations: one product, or one order
\* that may be cancelled, not older than the watermark.
OverlapProducts == {b \in Since(ProductBatches \cup Pages(PageProducts, 1, 0), db.last_updated_at) : b # <<>>}

OverlapOrders ==
    {<<RemoteOrder(1, st, t, "none")>> :
        st \in {"pending", "cancelled"}, t \in {s \in Stamps : s >= db.orders_last_updated_at}}

InitOverlap ==
    /\ db \in {d \in OutboundDbs :
                 d.access_token # "" /\ \A i \in 1..Len(d.tmpl) : ~LikeShopify(d.tmpl[i].default_code)}
    /\ ret = NoFrames

NextOverlap ==
    \/ \E b \in OverlapProducts : ProductsStart(b)
    \/ ProductsSave
    \/ ProductsFinish
    \/ \E b \in OverlapOrders : OrdersStart(b)
    \/ OrdersSave
    \/ OrdersFinish
    \/ ExportStart
    \/ \E fails \in BOOLEAN : ExportPush(fails)
    \/ ExportFinish

SpecOverlap == InitOverlap /\ [][NextOverlap]_vars

\* A catalogue whose product 1 cannot be reconciled: the price of its
\* variant is no number.
Unreconcilable == {1}

BreakSome(batch) ==
    [i \in 1..Len(batch) |->
        IF batch[i].id \in Unreconcilable
        THEN [batch[i] EXCEPT !.variants = <<RemoteVariant(batch[i].id, "invalid_price")>>]
        ELSE batch[i]]

\* One scheduler tick of auto_sync_shopify_products against that catalogue.
SyncFaulty(limit) ==
    \E b \in CataloguePages(db.remote, limit, db.last_updated_at) :
        SyncProducts([kind |-> "ok", batch |-> BreakSome(b), now |-> 1])

NextFaulty ==
    \/ \E limit \in Limits : SyncFaulty(limit)
    \/ \E id \in ProductIds, t \in Stamps : RemoteUpdate(id, t)

SpecFaulty == InitCatalogue /\ [][NextFaulty]_vars

\* The products the remote shop holds for exported templates, as the
\* inbound fetch delivers them: the id the export was answered with, the
\* title that was pushed, one variant.
ReturningProducts ==
    {RemoteProduct(NewRemoteId(i), Titles[i], "", 1, "9.99") : i \in ProductIds}

\* Exports, and inbound reconciliations of what was exported.
InitRoundTrip ==
    /\ db \in {d \in OutboundDbs : d.access_token # ""}
    /\ ret = NoCall

NextRoundTrip ==
    \/ \E out \in ExportOutcomes : Present(out.began) /\ ExportProducts(out)
    \/ \E p \in ReturningProducts : ReconcileProduct(p)

SpecRoundTrip == InitRoundTrip /\ [][NextRoundTrip]_vars

(***************************************************************************)
(* Purchasing from sale-order lines (sale_order_line.py).  supplierinfo    *)
(* holds the product.supplierinfo rows {product_tmpl_id, partner_id,       *)
(* min_qty, price} the action reads, oldest first (seller_ids of a         *)
(* template names their partners); purchase holds the purchase.order       *)
(* records {partner_id, state, origin} and purchase_line the               *)
(* purchase.order.line records {order_id, product_id, product_qty,         *)
(* price_unit}.  product_uom and date_planned are not modelled.            *)
(***************************************************************************)
MaxQty == 2
MaxLines == 2
MaxPurchaseQty == 4

NoRow == [product_tmpl_id |-> 0, partner_id |-> 0, min_qty |-> 0, price |-> 0]

\* product.seller_ids of a sale line's product: the rows of its template
\* (none for a line without product).
SellerIds(d, product) ==
    IF product = 0 THEN <<>>
    ELSE SelectSeq(d.supplierinfo,
             LAMBDA s : s.product_tmpl_id = d.variant[product].product_tmpl_id)

\* A choice of seller that looks at neither min_qty nor price.
FirstSeller(d, line) ==
    With(SellerIds(d, d.line[line].product_id), LAMBDA sellers :
        IF sellers = <<>> THEN [exc |-> TRUE, seller |-> NoRow]
        ELSE [exc |-> FALSE, seller |-> sellers[1]])

\* _get_best_seller of sale line `line`: [exc, seller]; exc is the
\* UserError of a line without eligible seller.  sorted() is stable, so
\* the first of the cheapest eligible rows is taken.
GetBestSeller(d, line) ==
    With(SelectSeq(SellerIds(d, d.line[line].product_id),
                   LAMBDA s : s.min_qty <= d.line[line].product_uom_qty),
         LAMBDA eligible_sellers :
        IF eligible_sellers = <<>> THEN [exc |-> TRUE, seller |-> NoRow]
        ELSE [exc |-> FALSE,
              seller |-> eligible_sellers[
                  CHOOSE i \in 1..Len(eligible_sellers) :
                      /\ \A j \in 1..Len(eligible_sellers) :
                             eligible_sellers[i].price <= eligible_sellers[j].price
                      /\ \A j \in 1..(i - 1) :
                             eligible_sellers[i].price < eligible_sellers[j].price]])

\* vendor_lines after the first loop: one group {vendor, so_lines} per
\* vendor, in the order the vendors were first met.
RECURSIVE VendorLines(_, _)
VendorLines(d, self) ==
    IF self = <<>> THEN <<>>
    ELSE With(VendorLines(d, SubSeq(self, 1, Len(self) - 1)), LAMBDA groups :
         With(GetBestSeller(d, self[Len(self)]).seller.partner_id, LAMBDA vendor :
         With(Search(groups, LAMBDA i, g : g.vendor = vendor), LAMBDA k :
             IF k = 0
             THEN Append(groups, [vendor |-> vendor, so_lines |-> <<self[Len(self)]>>])
             ELSE [groups EXCEPT ![k].so_lines = Append(@, self[Len(self)])])))

\* The name the framework's sequence gives a sale order on creation.
SaleOrderName(order_id) == <<"S", order_id>>

\* purchase.order is ordered newest first: the draft order of a vendor a
\* search with limit=1 returns, 0 if none.
DraftOrder(d, vendor) ==
    With({i \in 1..Len(d.purchase) :
             d.purchase[i].partner_id = vendor /\ d.purchase[i].state = "draft"},
         LAMBDA found : IF found = {} THEN 0 ELSE Max(found))

\* The purchase-order line of (po, product), 0 if none.
PurchaseLine(d, po, product) ==
    Search(d.purchase_line, LAMBDA i, r : r.order_id = po /\ r.product_id = product)

\* The body of the inner loop for one sale line: the quantity goes onto the
\* existing purchase line of the product, else onto a new one priced by the
\* best seller.
AddToPurchase(d, po, line) ==
    With(PurchaseLine(d, po, d.line[line].product_id), LAMBDA po_line :
        IF po_line # 0
        THEN [d EXCEPT !.purchase_line[po_line].product_qty =
                           @ + d.line[line].product_uom_qty]
        ELSE [d EXCEPT !.purchase_line = Append(@,
                 [order_id |-> po, product_id |-> d.line[line].product_id,
                  product_qty |-> d.line[line].product_uom_qty,
                  price_unit |-> GetBestSeller(d, line).seller.price])])

RECURSIVE AddAllToPurchase(_, _, _)
AddAllToPurchase(d, po, so_lines) ==
    IF so_lines = <<>> THEN d
    ELSE AddAllToPurchase(AddToPurchase(d, po, Head(so_lines)), po, Tail(so_lines))

\* The second loop: for every group the draft order of the vendor, or a new
\* one whose origin is the name of the order of the group's first sale
\* line, then the lines.  [db, orders]: orders are the ids of purchase_orders.
RECURSIVE CreateOrUpdateOrders(_, _, _)
CreateOrUpdateOrders(d, groups, purchase_orders) ==
    IF groups = <<>> THEN [db |-> d, orders |-> purchase_orders]
    ELSE With(Head(groups), LAMBDA g :
         With(DraftOrder(d, g.vendor), LAMBDA found :
         With(IF found # 0 THEN d
              ELSE [d EXCEPT !.purchase = Append(@,
                       [partner_id |-> g.vendor, state |-> "draft",
                        origin |-> SaleOrderName(d.line[g.so_lines[1]].order_id)])],
              LAMBDA d1 :
         With(IF found # 0 THEN found ELSE Len(d1.purchase), LAMBDA po :
             CreateOrUpdateOrders(AddAllToPurchase(d1, po, g.so_lines), Tail(groups),
                                  purchase_orders \cup {po})))))

\* An action that writes the orders of the lines met before the first line
\* without seller, and raises then.
EagerCreatePurchaseOrder(d, self) ==
    With(Search(self, LAMBDA i, line : GetBestSeller(d, line).exc), LAMBDA k :
        IF k # 0
        THEN With(CreateOrUpdateOrders(d, VendorLines(d, SubSeq(self, 1, k - 1)), {}),
                  LAMBDA r : [db |-> r.db, exc |-> TRUE, orders |-> {}])
        ELSE IF self = <<>> THEN [db |-> d, exc |-> TRUE, orders |-> {}]
        ELSE With(CreateOrUpdateOrders(d, VendorLines(d, self), {}),
                  LAMBDA r : [db |-> r.db, exc |-> FALSE, orders |-> r.orders]))

\* action_create_purchase_order on the selected sale lines self (ids, in
\* order): [db, exc, orders].  Every best seller is determined before any
\* purchase order is looked up; an empty selection raises as well.
ActionCreatePurchaseOrder(d, self) ==
    IF \E k \in 1..Len(self) : GetBestSeller(d, self[k]).exc
    THEN [db |-> d, exc |-> TRUE, orders |-> {}]
    ELSE IF VendorLines(d, self) = <<>>
    THEN [db |-> d, exc |-> TRUE, orders |-> {}]
    ELSE With(CreateOrUpdateOrders(d, VendorLines(d, self), {}),
              LAMBDA r : [db |-> r.db, exc |-> FALSE, orders |-> r.orders])

\* The button on a selection of sale lines.
CreatePurchaseOrder(self) ==
    \E r \in {ActionCreatePurchaseOrder(db, self)} :
        /\ \A i \in 1..Len(db.purchase_line) :
               db.purchase_line[i].product_qty <= MaxPurchaseQty
        /\ db' = r.db
        /\ ret' = [op |-> "action_create_purchase_order", arg |-> self,
                   exc |-> r.exc, result |-> r.orders]

\* The stores of the purchase action: two synchronised products, the
\* vendors Acme (partner 1) and Bolt (partner 2), one sale order of up to two
\* lines (a line item of id MaxVid + 1 has no product), a price list and
\* possibly an earlier purchase order of Acme.
SaleItems ==
    {[id |-> v, variant_id |-> v, title |-> "Item", quantity |-> q, price |-> "9.99"] :
         v \in 1..(MaxVid + 1), q \in 1..MaxQty}

SupplierRows ==
    {[product_tmpl_id |-> 1, partner_id |-> 1, min_qty |-> 1, price |-> 5],
     [product_tmpl_id |-> 1, partner_id |-> 2, min_qty |-> 2, price |-> 3],
     [product_tmpl_id |-> 2, partner_id |-> 2, min_qty |-> 1, price |-> 5],
     [product_tmpl_id |-> 2, partner_id |-> 1, min_qty |-> 1, price |-> 5]}

EarlierPurchases ==
    {[purchase |-> <<>>, purchase_line |-> <<>>]}
    \cup {[purchase |-> <<[partner_id |-> 1, state |-> s, origin |-> ""]>>,
           purchase_line |-> ls] :
              s \in {"draft", "purchase"},
              ls \in {<<>>, <<[order_id |-> 1, product_id |-> 1, product_qty |-> 1,
                              price_unit |-> 5]>>}}

\* The store holding the rows: every template names the partners of its rows.
Priced(d, rows) ==
    [d EXCEPT !.supplierinfo = rows,
              !.tmpl = [t \in 1..Len(d.tmpl) |->
                  [d.tmpl[t] EXCEPT !.seller_ids =
                      With(SelectSeq(rows, LAMBDA s : s.product_tmpl_id = t), LAMBDA own :
                          [i \in 1..Len(own) |-> own[i].partner_id])]]]

PurchaseDbs ==
    LET vendors == GetOrCreateVendor(GetOrCreateVendor(EmptyDb, "Acme").db, "Bolt").db
        stocked ==
            SaveSingleProduct(
                SaveSingleProduct(vendors, RemoteProduct(1, Titles[1], "", 1, "9.99")).db,
                RemoteProduct(2, Titles[2], "", 1, "9.99")).db
    IN  {Begin([Priced(SaveSingleOrder(stocked,
                           [RemoteOrder(1, "pending", 1, "none")
                               EXCEPT !.line_items = items]).db, rows)
                 EXCEPT !.purchase = e.purchase, !.purchase_line = e.purchase_line]) :
            items \in SeqsUpTo(SaleItems, MaxLines) \ {<<>>},
            rows \in SeqsUpTo(SupplierRows, 2),
            e \in EarlierPurchases}

\* The selections: the sale lines of the store, each at most once.
Selections(d) ==
    {s \in SeqsUpTo(1..Len(d.line), MaxLines) :
         \A i, j \in 1..Len(s) : i # j => s[i] # s[j]}

InitPurchase ==
    /\ db \in PurchaseDbs
    /\ ret = NoCall

NextPurchase == \E self \in Selections(db) : CreatePurchaseOrder(self)

SpecPurchase == InitPurchase /\ [][NextPurchase]_vars

\* Every invocation of the model.
Next ==
    \/ NextProduct
    \/ NextVendor
    \/ NextBatch
    \/ NextInbound
    \/ NextChunked
    \/ NextOrder
    \/ NextOrderBatch
    \/ NextVariants
    \/ NextVariant
    \/ NextRelink
    \/ NextOutbound
    \/ NextSteps
    \/ NextCatalogue
    \/ NextHttp
    \/ NextPaging
    \/ NextPush
    \/ NextStatus
    \/ NextLog
    \/ NextPublish
    \/ NextLines
    \/ NextCustomer
    \/ NextOverlap
    \/ NextFaulty
    \/ NextRoundTrip
    \/ NextPurchase

Spec == Init /\ [][Next]_vars

(***************************************************************************)
(* Properties: idempotent product upsert and vendor links.                 *)
(***************************************************************************)
\* The templates of the store d that carry the tag SHOPIFY_<id>.
Tagged(d, id) == {i \in 1..Len(d.tmpl) : d.tmpl[i].default_code = ShopifyTag(id)}

\* The last invocation was a _save_single_product that returned a template.
Delivered == ret.op = "_save_single_product" /\ ~ret.exc /\ ~ret.result.skipped

\* C1 as stated: after a product reconciliation of remote id has returned,
\* exactly one template carries SHOPIFY_<id>.
C1_ExactlyOneAfterDelivery ==
    (ret.op = "_save_single_product" /\ ~ret.exc)
        => Cardinality(Tagged(db, ret.arg.id)) = 1

\* C1: no tag is ever carried by two templates; after a reconciliation of
\* remote id that returned without skipping for a name collision, exactly
\* one template carries SHOPIFY_<id> and it is the one returned; a delivery
\* of an id whose tag a template already carries creates no template and
\* leaves the tag on that same template.
C1_IdempotentUpsert ==
    /\ [](/\ \A id \in ProductIds : Cardinality(Tagged(db, id)) <= 1
          /\ Delivered => Tagged(db, ret.arg.id) = {ret.result.id})
    /\ [][\A id \in ProductIds :
            (ret'.op = "_save_single_product" /\ ret'.arg.id = id /\ Tagged(db, id) # {})
                => /\ Tagged(db', id) = Tagged(db, id)
                   /\ Len(db'.tmpl) = Len(db.tmpl)
                   /\ ret'.result.id \in Tagged(db, id)]_vars

\* A template was created for id 1, then updated under another title by a
\* later delivery of id 1, and it is still the only one tagged SHOPIFY_1.
C1_Witness ==
    /\ Delivered /\ ret.arg.id = 1 /\ ret.arg.title = Titles[2]
    /\ Cardinality(Tagged(db, 1)) = 1
    /\ <<"info", <<"Updating product", Titles[2]>>>> \in Range(db.sync_log)
    /\ ~(<<"info", <<"Linked existing product", Titles[2]>>>> \in Range(db.sync_log))

\* The partners linked to template t as vendors.
Vendors(d, t) == Range(d.tmpl[t].seller_ids)

\* C8: no template ever has two vendor links to the same partner; no
\* reconciliation removes or reorders a vendor link of any template; a
\* reconciliation that returns a template and names a vendor leaves on that
\* template exactly the links it had plus the one to that vendor, and one
\* that names no vendor leaves the links as they were.
C8_VendorLinksAdditive ==
    /\ [](\A t \in 1..Len(db.tmpl) :
            Cardinality(Vendors(db, t)) = Len(db.tmpl[t].seller_ids))
    /\ [][/\ \A t \in 1..Len(db.tmpl) :
               /\ t <= Len(db'.tmpl)
               /\ Len(db'.tmpl[t].seller_ids) >= Len(db.tmpl[t].seller_ids)
               /\ SubSeq(db'.tmpl[t].seller_ids, 1, Len(db.tmpl[t].seller_ids))
                      = db.tmpl[t].seller_ids
          /\ (ret'.op = "_save_single_product" /\ ~ret'.exc /\ ~ret'.result.skipped)
               => LET t == ret'.result.id
                      before == IF t <= Len(db.tmpl) THEN Vendors(db, t) ELSE {}
                      named == {v \in 1..Len(db'.partner) :
                                   /\ db'.partner[v].name = ret'.arg.vendor
                                   /\ db'.partner[v].is_company
                                   /\ db'.partner[v].supplier_rank > 0}
                  IN  IF ret'.arg.vendor = ""
                      THEN Vendors(db', t) = before
                      ELSE /\ Cardinality(named) = 1
                           /\ Vendors(db', t) = before \cup named]_vars

\* Product 1 was reconciled with vendor Acme, then with Bolt, then with
\* Acme again: it has exactly the two links, Acme first.
C8_Witness ==
    /\ Delivered /\ ret.arg.id = 1 /\ ret.arg.vendor = "Acme"
    /\ LET t == ret.result.id
       IN  /\ Len(db.tmpl[t].seller_ids) = 2
           /\ db.partner[db.tmpl[t].seller_ids[1]].name = "Acme"
           /\ db.partner[db.tmpl[t].seller_ids[2]].name = "Bolt"

(***************************************************************************)
(* Properties: the watermarks of the inbound invocations.                  *)
(***************************************************************************)
\* The business records of a store: everything but configuration and log.
Records(d) ==
    <<d.tmpl, d.variant, d.partner, d.categ, d.order, d.line, d.invoice>>

InboundOps == {"auto_sync_shopify_products", "auto_sync_shopify_orders"}

\* Every entity of the page the invocation fetched had the timestamp the
\* watermark stood at, and there was at least one.
AllAtWatermark(r) ==
    /\ r.arg.kind = "ok" /\ r.arg.batch # <<>> /\ r.arg.since > 0
    /\ \A i \in 1..Len(r.arg.batch) : r.arg.batch[i][2] = r.arg.since

\* C2: no inbound invocation (auto_sync_shopify_products,
\* auto_sync_shopify_orders, _sync_products_chunked) lowers a stored
\* watermark.
C2_WatermarkNeverDecreases ==
    [][/\ db'.last_updated_at >= db.last_updated_at
       /\ db'.orders_last_updated_at >= db.orders_last_updated_at]_vars

\* C3: an inbound invocation whose fetch fails (HTTP error status after the
\* retries, or network error) leaves both watermarks and every business
\* record as they were, sets the sync status to 'error' and returns False
\* without raising.
C3_FetchFailure ==
    [][(ret'.op \in InboundOps /\ ret'.arg.kind # "ok")
          => /\ db'.last_updated_at = db.last_updated_at
             /\ db'.orders_last_updated_at = db.orders_last_updated_at
             /\ Records(db') = Records(db)
             /\ db'.sync_status = "error"
             /\ ret'.result = "False"
             /\ ~ret'.exc]_vars

\* An order invocation failed at the fetch after an earlier one had stored
\* records and a watermark: both are still there.
C3_Witness ==
    /\ ret.op = "auto_sync_shopify_orders" /\ ret.arg.kind = "http_error"
    /\ ret.result = "False" /\ db.sync_status = "error"
    /\ db.orders_last_updated_at = ret.arg.since /\ ret.arg.since > 0
    /\ db.order # <<>>

\* C6: when every product of the page auto_sync_shopify_products fetched
\* has the timestamp T the watermark stood at, the watermark stored
\* afterwards is T plus one second, and no page the next invocation can
\* fetch holds a product with timestamp T.
C6_ProductWatermarkBump ==
    [][(ret'.op = "auto_sync_shopify_products" /\ AllAtWatermark(ret'))
          => /\ db'.last_updated_at = db.last_updated_at + 1
             /\ \A f \in ProductFetches[db'.last_updated_at] :
                    \A i \in 1..Len(f.batch) :
                        f.batch[i].updated_at > db.last_updated_at]_vars

\* A product invocation fetched a page all at the watermark 1 and left the
\* watermark at 2.
C6_Witness ==
    /\ ret.op = "auto_sync_shopify_products" /\ AllAtWatermark(ret)
    /\ ret.arg.since = 1 /\ db.last_updated_at = 2

\* C7 as stated: when every order of the page auto_sync_shopify_orders
\* fetched has the timestamp T the order watermark stood at, the order
\* watermark stored afterwards is greater than T.
C7_OrderWatermarkBump ==
    [][(ret'.op = "auto_sync_shopify_orders" /\ AllAtWatermark(ret'))
          => db'.orders_last_updated_at > db.orders_last_updated_at]_vars

(***************************************************************************)
(* Properties: per-record isolation inside a batch.                        *)
(***************************************************************************)
\* The reconciliation of a product of these batches raises exactly when
\* float() rejects the price of its variant.
ProductRaises(p) == \E i \in 1..Len(p.variants) : ~FloatOk(p.variants[i].price)

\* C4 as stated: in save_products_to_odoo on a batch of products with
\* distinct ids of which exactly one, k, raises, every other product has
\* its template and its variant in the store after the call, k has left no
\* template and no variant, the error is logged with k's title, and no
\* exception escapes.
C4_ProductIsolation ==
    [][ret'.op = "save_products_to_odoo" =>
         LET b == ret'.arg
         IN  \A k \in 1..Len(b) :
               (ProductRaises(b[k]) /\ \A j \in 1..Len(b) : j # k => ~ProductRaises(b[j]))
                 => /\ \A j \in 1..Len(b) : j # k =>
                          /\ Tagged(db', b[j].id) # {}
                          /\ \E v \in 1..Len(db'.variant) :
                                 /\ db'.variant[v].default_code = VariantTag(b[j].variants[1].id)
                                 /\ db'.variant[v].product_tmpl_id \in Tagged(db', b[j].id)
                    /\ Tagged(db', b[k].id) = Tagged(db, b[k].id)
                    /\ <<"error", <<"Error saving product", b[k].title>>>> \in Range(db'.logger)
                    /\ ~ret'.exc]_vars

\* The order at position k of batch b raises when the batch is reconciled
\* from store d.
RECURSIVE OrderRaises(_, _, _)
OrderRaises(d, b, k) ==
    IF k = 1 THEN SaveSingleOrder(d, b[1]).exc
    ELSE OrderRaises(SaveOrdersLoop(d, <<b[1]>>, 0).db, Tail(b), k - 1)

\* Batch b without its k-th order.
Without(b, k) == SubSeq(b, 1, k - 1) \o SubSeq(b, k + 1, Len(b))

\* The order of remote payload o is fully present in store d: a sale order
\* that is not cancelled carries its tag, has its customer and its line,
\* and, if it is confirmed, its posted invoice.
FullyPresent(d, o) ==
    \E i \in 1..Len(d.order) :
        /\ d.order[i].client_order_ref = ShopifyTag(o.id)
        /\ d.order[i].state # "cancel"
        /\ d.order[i].partner_id \in 1..Len(d.partner)
        /\ d.partner[d.order[i].partner_id].email = o.email
        /\ \E l \in 1..Len(d.line) :
               d.line[l].order_id = i /\ d.line[l].name = o.line_items[1].title
        /\ d.order[i].state = "sale" =>
               \E n \in 1..Len(d.invoice) :
                   d.invoice[n].invoice_origin = i /\ d.invoice[n].state = "posted"

\* C5: in save_orders_to_odoo on a batch of N orders of which exactly one,
\* k, raises (at the customer, the header, a line, the confirmation or the
\* invoice), the other N-1 orders are fully present after the call, the
\* orders, lines, customers and invoices are exactly those the batch
\* without k leaves, the error is logged with k's name, the last log line
\* reports N-1 of N, and no exception escapes.
C5_OrderIsolation ==
    [][ret'.op = "save_orders_to_odoo" =>
         LET b == ret'.arg
             d == Begin(db)
         IN  \A k \in 1..Len(b) :
               (OrderRaises(d, b, k) /\ \A j \in 1..Len(b) : j # k => ~OrderRaises(d, b, j))
                 => /\ \A j \in 1..Len(b) : j # k => FullyPresent(db', b[j])
                    /\ Records(db') = Records(SaveOrdersToOdoo(d, Without(b, k)))
                    /\ <<"error", <<"Error saving order", b[k].name>>>> \in Range(db'.sync_log)
                    /\ db'.sync_log[Len(db'.sync_log)] =
                           <<"warning", <<"Successfully synced orders out of",
                                          Len(b) - 1, Len(b)>>>>
                    /\ ~ret'.exc]_vars

\* A batch of two paid orders, the second of which raised at the invoice
\* after its header, line and confirmation were written: the first is
\* there with its invoice, of the second there is no trace but the log line.
C5_Witness ==
    /\ ret.op = "save_orders_to_odoo" /\ Len(ret.arg) = 2
    /\ ret.arg[1].financial_status = "paid" /\ ret.arg[1].raises = "none"
    /\ ret.arg[2].financial_status = "paid" /\ ret.arg[2].raises = "invoice"
    /\ <<"error", <<"Error saving order", ret.arg[2].name>>>> \in Range(db.sync_log)
    /\ Len(db.order) = 1 /\ Len(db.invoice) = 1 /\ Len(db.line) = 1
    /\ db.order[1].client_order_ref = ShopifyTag(ret.arg[1].id)

(***************************************************************************)
(* Properties: orders are reconciled once.                                 *)
(***************************************************************************)
\* The sale orders of store d that carry the tag SHOPIFY_<id>.
TaggedOrders(d, id) ==
    {i \in 1..Len(d.order) : d.order[i].client_order_ref = ShopifyTag(id)}

\* C9 as stated: _save_single_order on a remote order whose tag a local
\* sale order carries, in whatever state, creates no order, customer, line
\* or invoice, changes no order and returns a carrier of the tag.
C9_ExistingOrderSkipped ==
    [][(ret'.op = "_save_single_order" /\ TaggedOrders(db, ret'.arg.id) # {})
          => /\ Records(db') = Records(db)
             /\ ret'.result \in TaggedOrders(db, ret'.arg.id)]_vars

\* Invoice n of store d mirrors the lines of order i: one invoice line per
\* order line, in order, with its name, quantity, unit price and product.
Mirrors(d, n, i) ==
    LET ids == OrderLineIds(d, i, 1)
        inv == d.invoice[n].invoice_line_ids
    IN  /\ Len(inv) = Len(ids)
        /\ \A k \in 1..Len(ids) :
               /\ inv[k].name = d.line[ids[k]].name
               /\ inv[k].quantity = d.line[ids[k]].product_uom_qty
               /\ inv[k].price_unit = d.line[ids[k]].price_unit
               /\ inv[k].product_id = d.line[ids[k]].product_id
               /\ inv[k].sale_line_id = ids[k]

\* The invoices of store d made for order i.
InvoicesOf(d, i) == {n \in 1..Len(d.invoice) : d.invoice[n].invoice_origin = i}

\* C10: a remote order that was only ever delivered as paid has exactly
\* one sale order, confirmed, with exactly one invoice, posted and
\* mirroring the order lines; the first paid delivery of an id creates
\* that order and that invoice, and a paid delivery of an id that has a
\* confirmed order creates no order, line, customer or invoice.
C10_PaidOrderOnce ==
    /\ [](\A id \in OrderIds :
            (/\ TaggedOrders(db, id) # {}
             /\ \A i \in TaggedOrders(db, id) : db.order[i].state = "sale")
              => /\ Cardinality(TaggedOrders(db, id)) = 1
                 /\ \A i \in TaggedOrders(db, id) :
                        /\ Cardinality(InvoicesOf(db, i)) = 1
                        /\ \A n \in InvoicesOf(db, i) :
                               db.invoice[n].state = "posted" /\ Mirrors(db, n, i))
    /\ [][(ret'.op = "_save_single_order" /\ ret'.arg.financial_status = "paid" /\ ~ret'.exc)
            => LET id == ret'.arg.id
               IN  IF TaggedOrders(db, id) = {}
                   THEN /\ TaggedOrders(db', id) = {ret'.result}
                        /\ db'.order[ret'.result].state = "sale"
                        /\ Len(db'.order) = Len(db.order) + 1
                        /\ Len(db'.invoice) = Len(db.invoice) + 1
                        /\ OrderLineIds(db', ret'.result, 1) # <<>>
                   ELSE (\E i \in TaggedOrders(db, id) : db.order[i].state = "sale")
                          => /\ Records(db') = Records(db)
                             /\ db.order[ret'.result].state = "sale"
                             /\ ret'.result \in TaggedOrders(db, id)]_vars

\* Order 1 was delivered as paid; the last invocation delivered it as paid
\* again and found it: one order, one invoice, one line.
C10_Witness ==
    /\ ret.op = "_save_single_order" /\ ret.arg.id = 1
    /\ ret.arg.financial_status = "paid"
    /\ <<"info", <<"Order already exists, skipping", ret.arg.name>>>> \in Range(db.sync_log)
    /\ Cardinality(TaggedOrders(db, 1)) = 1
    /\ db.order[ret.result].state = "sale"
    /\ Cardinality(InvoicesOf(db, ret.result)) = 1

(***************************************************************************)
(* Properties: the state an order is created in.                           *)
(***************************************************************************)
\* The state financial_status st gives a newly created order.
StateFor(st) ==
    IF st = "cancelled" THEN "cancel" ELSE IF st = "paid" THEN "sale" ELSE "draft"

\* C11: when _save_single_order creates an order (no order that is not
\* cancelled carries the tag, nothing raises), the new order is cancelled
\* without invoice if financial_status is 'cancelled', confirmed with
\* exactly one posted invoice if it is 'paid', and in draft without invoice
\* for every other value, 'partially_paid' and a missing status included;
\* no other order and no other invoice changes.
C11_StateByFinancialStatus ==
    [][(ret'.op = "_save_single_order" /\ ~ret'.exc
          /\ \A i \in TaggedOrders(db, ret'.arg.id) : db.order[i].state = "cancel")
          => LET n == ret'.result
             IN  /\ n = Len(db.order) + 1 /\ Len(db'.order) = n
                 /\ SubSeq(db'.order, 1, Len(db.order)) = db.order
                 /\ db'.order[n].client_order_ref = ShopifyTag(ret'.arg.id)
                 /\ db'.order[n].state = StateFor(ret'.arg.financial_status)
                 /\ SubSeq(db'.invoice, 1, Len(db.invoice)) = db.invoice
                 /\ IF ret'.arg.financial_status = "paid"
                    THEN /\ Len(db'.invoice) = Len(db.invoice) + 1
                         /\ InvoicesOf(db', n) = {Len(db'.invoice)}
                         /\ db'.invoice[Len(db'.invoice)].state = "posted"
                    ELSE db'.invoice = db.invoice]_vars

\* An order was created from a payload with financial_status
\* 'partially_paid': it is in draft and has no invoice.
C11_Witness ==
    /\ ret.op = "_save_single_order" /\ ~ret.exc
    /\ ret.arg.financial_status = "partially_paid"
    /\ ret.result = Len(db.order)
    /\ db.order[ret.result].state = "draft"
    /\ InvoicesOf(db, ret.result) = {}
    /\ ~(<<"info", <<"Order already exists, skipping", ret.arg.name>>>> \in Range(db.sync_log))

(***************************************************************************)
(* Properties: variants.                                                   *)
(***************************************************************************)
\* The variants of the store d that carry the tag SHOPIFY_VAR_<id>.
TaggedVariants(d, id) ==
    {i \in 1..Len(d.variant) : d.variant[i].default_code = VariantTag(id)}

\* The variants of the store d linked to template t.
VariantsOf(d, t) == {i \in 1..Len(d.variant) : d.variant[i].product_tmpl_id = t}

\* The number of vendor links of the store d.
RECURSIVE VendorLinks(_, _)
VendorLinks(d, t) ==
    IF t = 0 THEN 0 ELSE Len(d.tmpl[t].seller_ids) + VendorLinks(d, t - 1)

\* The step re-reconciles a product with a single variant that is stored
\* once, on the template that carries the product's tag.
Restored(i) ==
    /\ ret'.op = "_save_single_product" /\ Len(ret'.arg.variants) = 1
    /\ TaggedVariants(db, ret'.arg.variants[1].id) = {i}
    /\ Tagged(db, ret'.arg.id) = {db.variant[i].product_tmpl_id}

\* What such a step keeps: the record, its tag and link, and the numbers
\* of templates, variants and vendor links; price and weight are the
\* remote ones.
UpdatedInPlace(i) ==
    LET v == ret'.arg.variants[1]
    IN  /\ ~ret'.exc
        /\ Len(db'.tmpl) = Len(db.tmpl) /\ Len(db'.variant) = Len(db.variant)
        /\ VendorLinks(db', Len(db'.tmpl)) = VendorLinks(db, Len(db.tmpl))
        /\ db'.variant[i].default_code = VariantTag(v.id)
        /\ db'.variant[i].product_tmpl_id = db.variant[i].product_tmpl_id
        /\ db'.variant[i].list_price = v.price
        /\ db'.variant[i].weight = v.weight

\* C12 as stated: re-reconciling a product whose variant is stored on the
\* product's template updates that variant in place, and price, weight and
\* barcode take the remote values.
C12_AllFieldsOverwritten ==
    [][\A i \in 1..Len(db.variant) :
          Restored(i) => /\ UpdatedInPlace(i)
                         /\ db'.variant[i].barcode = ret'.arg.variants[1].barcode]_vars

\* C12: re-reconciling a product with one variant, stored on the product's
\* template, updates that variant in place: same record, tag and template
\* link, the numbers of templates, variants and vendor links unchanged,
\* price and weight the remote ones; the barcode becomes the remote one
\* only if that is not empty and no other variant carries it, and stays as
\* it was otherwise.
C12_VariantUpdatedInPlace ==
    [][\A i \in 1..Len(db.variant) :
          Restored(i)
            => LET v == ret'.arg.variants[1]
                   free == \A j \in 1..Len(db.variant) :
                               j # i => db.variant[j].barcode # v.barcode
               IN  /\ UpdatedInPlace(i)
                   /\ db'.variant[i].barcode =
                          IF v.barcode # "" /\ free THEN v.barcode
                          ELSE db.variant[i].barcode]_vars

\* A stored variant that carries barcode B1 was reconciled again at 12.50
\* with no barcode: it has the new price and still carries B1.
C12_Witness ==
    /\ ret.op = "_save_single_product" /\ ~ret.exc /\ Len(ret.arg.variants) = 1
    /\ ret.arg.variants[1].price = "12.50" /\ ret.arg.variants[1].barcode = ""
    /\ <<"info", <<"Updated existing variant", ret.arg.variants[1].id>>>> \in Range(db.sync_log)
    /\ \E i \in TaggedVariants(db, ret.arg.variants[1].id) :
           /\ db.variant[i].list_price = "12.50"
           /\ db.variant[i].barcode = "B1"
           /\ db.variant[i].product_tmpl_id = ret.result.id

\* C13 as stated: reconciling a new remote product with k >= 2 variants
\* of distinct ids leaves k variants on the product's template, one per
\* remote variant and tagged with its id.
C13_OneVariantPerRemoteVariant ==
    [][(/\ ret'.op = "_save_single_product" /\ ~ret'.exc
        /\ Len(db'.tmpl) = Len(db.tmpl) + 1
        /\ Len(ret'.arg.variants) >= 2)
          => LET t == ret'.result.id
                 vs == ret'.arg.variants
             IN  /\ Cardinality(VariantsOf(db', t)) = Len(vs)
                 /\ \A k \in 1..Len(vs) :
                        Cardinality(TaggedVariants(db', vs[k].id) \cap VariantsOf(db', t)) = 1]_vars

\* The variants of template t in store d that carry no tag.
Untagged(d, t) == {i \in VariantsOf(d, t) : d.variant[i].default_code = NoCode}

\* C14 as stated: the variant _save_product_variant(template, variant)
\* returns is linked to the template and tagged SHOPIFY_VAR_<variant id>;
\* if the template held an untagged variant, one of those is what is
\* returned and no variant is created.
C14_ReturnedVariantLinkedAndTagged ==
    [][(ret'.op = "_save_product_variant" /\ ~ret'.exc)
          => LET t == ret'.arg[1]
                 v == ret'.arg[2]
                 r == db'.variant[ret'.result]
             IN  /\ r.product_tmpl_id = t
                 /\ r.default_code = VariantTag(v.id)
                 /\ Untagged(db, t) # {}
                      => /\ ret'.result \in Untagged(db, t)
                         /\ Len(db'.variant) = Len(db.variant)]_vars

\* C15 as stated: at most one variant carries a given tag
\* SHOPIFY_VAR_<v>, also after remote variant v was delivered under a
\* template other than the one of its local variant.
C15_OneVariantPerTag ==
    \A v \in VariantIds : Cardinality(TaggedVariants(db, v)) <= 1

\* C16 as stated: when a product reconciliation for template T finds the
\* tag of one of its variants on a variant of another template, that
\* variant keeps its template link, and T has a variant that carries the
\* tag afterwards.
C16_ForeignVariantNeverMoved ==
    [][(ret'.op = "_save_single_product" /\ ~ret'.exc /\ ~ret'.result.skipped)
          => LET T == ret'.result.id
             IN  \A k \in 1..Len(ret'.arg.variants) :
                 \A i \in TaggedVariants(db, ret'.arg.variants[k].id) :
                     db.variant[i].product_tmpl_id # T
                       => /\ db'.variant[i].product_tmpl_id = db.variant[i].product_tmpl_id
                          /\ TaggedVariants(db', ret'.arg.variants[k].id)
                                 \cap VariantsOf(db', T) # {}]_vars

\* C17 as stated: no two variants ever carry the same barcode; a call of
\* _save_product_variant never raises for a payload whose price is valid
\* and whose store calls succeed; it gives the returned variant the remote
\* barcode only if no other variant carried it, and writes price, weight
\* and tag in either case.
C17_BarcodeNeverShared ==
    /\ [](\A i, j \in 1..Len(db.variant) :
            (i # j /\ db.variant[i].barcode # "")
              => db.variant[i].barcode # db.variant[j].barcode)
    /\ [][(ret'.op = "_save_product_variant" /\ ret'.arg[2].fails = "none")
            => LET v == ret'.arg[2]
                   r == ret'.result
                   others == {j \in 1..Len(db.variant) :
                                 j # r /\ db.variant[j].barcode = v.barcode}
               IN  /\ ~ret'.exc
                   /\ db'.variant[r].list_price = v.price
                   /\ db'.variant[r].weight = v.weight
                   /\ db'.variant[r].default_code = VariantTag(v.id)
                   /\ (v.barcode # "" /\ others # {})
                        => db'.variant[r].barcode # v.barcode]_vars

(***************************************************************************)
(* Properties: configuration.                                              *)
(***************************************************************************)
\* The access token or the store URL of store d is not configured.
Unconfigured(d) == d.access_token = "" \/ d.store_url = ""

\* C19: an invocation of an inbound scheduler entry point that finds the
\* access token or the store URL not configured issues no HTTP request,
\* creates and changes no record, leaves both watermarks as they were,
\* sets the status to 'error', logs the configuration error at level
\* error and returns False to its caller.
C19_NoRequestWithoutConfig ==
    [][(ret'.op \in InboundOps /\ Unconfigured(db))
          => /\ db'.requests = 0
             /\ Records(db') = Records(db)
             /\ db'.last_updated_at = db.last_updated_at
             /\ db'.orders_last_updated_at = db.orders_last_updated_at
             /\ db'.sync_status = "error"
             /\ \E m \in Range(db'.sync_log) : m[1] = "error" /\ m[2][1] = "Unexpected error fetching single batch"
             /\ ~ret'.exc /\ ret'.result = "False"]_vars

\* The product entry point ran with a token and no store URL, although the
\* remote side had a page of products ready: nothing was requested, nothing
\* stored, the status is 'error'.
C19_Witness ==
    /\ ret.op = "auto_sync_shopify_products" /\ ret.arg.kind = "ok" /\ ret.arg.batch # <<>>
    /\ db.access_token # "" /\ db.store_url = ""
    /\ db.requests = 0 /\ db.tmpl = <<>> /\ db.last_updated_at = 0
    /\ db.sync_status = "error" /\ ret.result = "False"

(***************************************************************************)
(* Properties: adoption of templates created by hand.                      *)
(***************************************************************************)
\* The templates of store d named title that carry no external-id tag.
Adoptable(d, title) ==
    {j \in 1..Len(d.tmpl) : d.tmpl[j].name = title /\ ~LikeShopify(d.tmpl[j].default_code)}

\* C20 as stated: when no template carries SHOPIFY_<id> and a template
\* without external-id tag has the remote title, the reconciliation creates
\* no template, stamps SHOPIFY_<id> onto such a template, returns it and
\* has overwritten its fields with the remote ones.
C20_UntaggedNamesakeAdopted ==
    [][(/\ ret'.op = "_save_single_product"
        /\ Tagged(db, ret'.arg.id) = {}
        /\ Adoptable(db, ret'.arg.title) # {})
          => /\ ~ret'.exc /\ ~ret'.result.skipped
             /\ Len(db'.tmpl) = Len(db.tmpl)
             /\ ret'.result.id \in Adoptable(db, ret'.arg.title)
             /\ LET r == db'.tmpl[ret'.result.id]
                IN  /\ r.default_code = ShopifyTag(ret'.arg.id)
                    /\ r.name = ret'.arg.title
                    /\ r.purchase_ok = (ret'.arg.vendor # "")
                    /\ r.x_shopify_updated_at = ret'.arg.updated_at]_vars

(***************************************************************************)
(* Properties: the scheduler entry points.                                 *)
(***************************************************************************)
OutboundOps ==
    {"export_products_to_shopify", "sync_inventory_to_shopify",
     "update_products_to_shopify"}

\* The last invocation met an error outside its per-record handling: the
\* fetch of an inbound entry point failed, or a store call of an outbound
\* entry point outside the loop over the records raised.
BatchError ==
    \/ ret.op \in InboundOps /\ ret.arg.kind # "ok"
    \/ ret.op \in OutboundOps /\ ret.arg.fails = "batch"

\* C18 as stated: no invocation of one of the five scheduler entry points
\* ends with an exception; one that met a batch-level error has set the
\* status to 'error' and returned.
C18_NothingReachesScheduler ==
    (ret.op \in InboundOps \cup OutboundOps)
        => /\ ~ret.exc
           /\ BatchError => db.sync_status = "error"

(***************************************************************************)
(* Properties: name collision.                                             *)
(***************************************************************************)
\* The templates of store d named title that carry the tag of a remote id
\* other than id.
Namesakes(d, title, id) ==
    {j \in 1..Len(d.tmpl) :
        /\ d.tmpl[j].name = title
        /\ LikeShopify(d.tmpl[j].default_code)
        /\ d.tmpl[j].default_code # ShopifyTag(id)}

\* C21: a product reconciliation of remote id that finds no template
\* tagged SHOPIFY_<id>, no template of the remote title without external-id
\* tag, and a template of that title tagged with another id, creates and
\* changes no template (tag, fields and vendor links included) and no
\* variant, logs a warning and no error, and returns without exception.
C21_NameCollisionSkipped ==
    [][(/\ ret'.op = "_save_single_product"
        /\ Tagged(db, ret'.arg.id) = {}
        /\ Adoptable(db, ret'.arg.title) = {}
        /\ Namesakes(db, ret'.arg.title, ret'.arg.id) # {})
          => /\ ~ret'.exc /\ ret'.result.skipped
             /\ db'.tmpl = db.tmpl
             /\ db'.variant = db.variant
             /\ <<"warning", <<"Product with same name but different Shopify ID already exists",
                               ret'.arg.title>>>> \in Range(db'.sync_log)
             /\ \A m \in Range(db'.sync_log) : m[1] # "error"]_vars

\* Remote id 2 was delivered under the title of the template tagged
\* SHOPIFY_1 and was skipped: no template carries SHOPIFY_2.
C21_Witness ==
    /\ ret.op = "_save_single_product" /\ ret.arg.id = 2 /\ ~ret.exc
    /\ ret.result.skipped
    /\ Namesakes(db, ret.arg.title, 2) # {}
    /\ Tagged(db, 2) = {}
    /\ \E m \in Range(db.sync_log) : m[1] = "warning"

\* The watermark of the entry point a frame belongs to.
WatermarkOf(d, entry) ==
    IF entry = "auto_sync_shopify_orders" THEN d.orders_last_updated_at
    ELSE d.last_updated_at

\* C22: while an inbound invocation still has records of its batch to
\* reconcile, the stored watermark is not ahead of any of them: the
\* watermark is written only after the last record has been reconciled.
\* auto_sync_shopify_orders stores the batch maximum before it calls
\* save_orders_to_odoo, so this is violated by a batch of two orders with
\* different update timestamps.
C22_WatermarkNotAheadOfPending ==
    Running =>
        \A i \in 1..Len(ret.pending) :
            WatermarkOf(db, ret.entry) <= ret.pending[i].updated_at

\* C23: every product of the remote catalogue whose update instant is below
\* the stored product watermark has been delivered to reconciliation at
\* that instant: the template tagged with its id records it.  Violated by
\* two products of one instant fetched with limit 1: the second fetch
\* returns the first product again and moves the watermark one second on.
C23_NothingBelowWatermarkSkipped ==
    \A id \in DOMAIN db.remote :
        (db.remote[id] # 0 /\ db.remote[id] < db.last_updated_at)
            => \E i \in Tagged(db, id) :
                   db.tmpl[i].x_shopify_updated_at = db.remote[id]

\* C24: when _save_single_product or _save_single_order has returned for a
\* payload and is then handed the same payload again, the second delivery
\* leaves every business record as the first one left it.  Violated by an
\* order with financial_status 'cancelled': the lookup does not see the
\* cancelled order of the first delivery and a second one is created.
C24_RedeliveryIsNoOp ==
    [][(/\ ret.op \in {"_save_single_product", "_save_single_order"}
        /\ ~ret.exc
        /\ ret'.op = ret.op /\ ret'.arg = ret.arg)
          => Records(db') = Records(db)]_vars

\* The outcomes after which a request the model sent was sent again.
RetriedAfter(r) == {r.arg.outcomes[i] : i \in 1..(r.result - 1)}

\* C25 as stated: a single batch GET is attempted at most 1 + 3 times and
\* sent again only after a response whose status is 429, 500, 502, 503 or
\* 504; a POST or PUT is sent once.  Violated by a GET whose first attempt
\* fails to connect: the retry policy counts it against total and retries.
C25_RetryOnlyOnStatus ==
    ret.op = "http" =>
        IF ret.arg.method = "GET"
        THEN /\ ret.result <= 1 + 3
             /\ RetriedAfter(ret) \subseteq {429, 500, 502, 503, 504}
        ELSE ret.result = 1

\* C25: a single batch GET is attempted at most 1 + 3 times, and sent again
\* only after a response whose status is 429, 500, 502, 503 or 504, after a
\* 413 answered with Retry-After, or after an attempt that got no response
\* (failed connection, read timeout); a POST or PUT is sent once, whatever
\* its outcome.
C25_RetryBoundedReadsOnly ==
    ret.op = "http" =>
        IF ret.arg.method = "GET"
        THEN /\ ret.result <= 1 + 3
             /\ RetriedAfter(ret) \subseteq
                    {429, 500, 502, 503, 504, RetryAfter413, ConnectionError, ReadTimeout}
        ELSE ret.result = 1

\* A single batch GET that used up its three retries: two of them after a
\* transient status, one after an attempt without response.
C25_Witness ==
    /\ ret.op = "http" /\ ret.arg.method = "GET" /\ ret.result = 4
    /\ \E i \in 1..3 : ret.arg.outcomes[i] \in {ConnectionError, ReadTimeout}
    /\ \E i \in 1..3 : ret.arg.outcomes[i] \in {429, 503}

\* The frame of fetch_shopify_products_chunk, running or returned.
ChunkFrame(r) ==
    \/ r.op = "paging" /\ r.entry = "fetch_shopify_products_chunk"
    \/ r.op = "fetch_shopify_products_chunk"

\* The pages a paginated fetch has requested, running or returned.
Visited(r) == IF r.op = "paging" THEN r.visited ELSE r.result.visited

\* Page k of the listing of frame r had products and its response named a
\* further page.
Continues(r, k) ==
    /\ k \in DOMAIN r.arg.listing /\ r.arg.listing[k] # 0
    /\ k < Len(r.arg.listing) \/ k > 1

NextLinks(link_header) ==
    {link_header[i] : i \in {j \in 1..Len(link_header) : link_header[j].rel = "next"}}

\* C27: a paginated fetch that goes on after a response goes on with the
\* page_info of that response's rel="next" link, so it stops when there is
\* none, and it requests no page twice.  Violated by a listing of two
\* pages: the header of the last page carries only the rel="previous" link,
\* whose page_info parse_next_page_token returns, and page 1 is requested
\* again.
C27_FollowsOnlyNext ==
    /\ (Paging /\ ret.visited # <<>>) =>
           \E l \in NextLinks(ret.link) : ret.page_info = l.page_info
    /\ (Paging \/ ret.op \in {"fetch_shopify_products", "fetch_shopify_products_chunk"}) =>
           \A i, j \in 1..Len(Visited(ret)) : i < j => Visited(ret)[i] # Visited(ret)[j]

Later(a, b) == IF a > b THEN a ELSE b

\* update_products_to_shopify would push template i of store d: its search
\* returns it and _should_update_product_in_shopify is true for it.
ShouldPush(d, i) ==
    i \in Range(UpdateSelection(d)) /\ ShouldUpdateProductInShopify(d, i)

\* C28 as stated: a template exported before is pushed by
\* update_products_to_shopify exactly when its write_date is later than the
\* later of the last outbound sync and its own x_shopify_synced_at.
\* Violated by a store of 21 modified templates: the search returns 20.
C28_PushedIffModifiedSince ==
    \A i \in 1..Len(db.tmpl) :
        LikeShopify(db.tmpl[i].default_code) =>
            (ShouldPush(db, i) <=>
                db.tmpl[i].write_date >
                    Later(db.last_odoo_to_shopify_sync, db.tmpl[i].x_shopify_synced_at))

PushOps == {"export_products_to_shopify", "update_products_to_shopify"}

\* The templates the last invocation pushed with success and stamped.
Pushed(d) ==
    {i \in 1..Len(d.tmpl) :
        /\ d.tmpl[i].x_shopify_synced_at # 0
        /\ \E k \in 1..Len(d.sync_log) :
              \/ d.sync_log[k] = <<"info", <<"Exported product", d.tmpl[i].name>>>>
              \/ d.sync_log[k] = <<"info", <<"Updated product in Shopify", d.tmpl[i].name>>>>}

\* C29 as stated: of two product pushes (export_products_to_shopify,
\* update_products_to_shopify) that follow each other with no write of a
\* template in between, the second pushes no template the first one pushed
\* and stamped.  Violated by an export whose push happens in the second its
\* transaction began in: the stamp is that second without its fraction,
\* write_date is later, and the update that follows pushes the template.
C29_NoRepeatedPush ==
    [][(ret.op \in PushOps /\ ret'.op \in PushOps)
          => Pushed(db) \cap Pushed(db') = {}]_vars

\* C30: an inbound invocation that goes on to reconcile its batch has set
\* the status to 'running'; when an inbound invocation returns, the status
\* is 'completed' if its fetch succeeded, whether or not the
\* reconciliation of a record failed, and 'error' if it did not; the
\* last-run timestamp becomes the present instant on completion and stays
\* as it was otherwise.
C30_StatusFollowsFetch ==
    [][/\ (~Running /\ ret'.op = "running") => db'.sync_status = "running"
       /\ ret'.op \in InboundOps =>
             IF ret'.arg.kind = "ok" /\ ~Unconfigured(db)
             THEN db'.sync_status = "completed" /\ db'.last_sync_date = ret'.arg.now
             ELSE db'.sync_status = "error" /\ db'.last_sync_date = db.last_sync_date]_vars

\* An order invocation returned 'completed' at a later instant than the
\* run before, although the reconciliation of one of its orders failed.
C30_Witness ==
    /\ ret.op = "auto_sync_shopify_orders" /\ ret.arg.kind = "ok"
    /\ db.sync_status = "completed" /\ db.last_sync_date = 2
    /\ \E k \in 1..Len(db.sync_log) :
          db.sync_log[k][1] = "warning"
              /\ db.sync_log[k][2][1] = "Successfully synced orders out of"

(***************************************************************************)
(* C31: the sync log.                                                      *)
(***************************************************************************)
\* The lines an invocation added to the stored log.
Added(d, e) == {k \in 1..Len(e.sync_log) : k > Len(d.sync_log)}

Extends(d, e) ==
    /\ Len(d.sync_log) <= Len(e.sync_log)
    /\ \A k \in 1..Len(d.sync_log) : e.sync_log[k] = d.sync_log[k]

\* C31: the stored log after a batch reconciliation is the log before with
\* lines appended, every line tagged with its level, and among the appended
\* lines is the error line of every product of the batch whose
\* reconciliation raised and of every order whose reconciliation raised.
\* Violated by a batch with a product that raises: its error line is
\* appended before cr.rollback() takes the transaction, the line included,
\* back to the last commit.
C31_LogAppendOnly ==
    [][/\ Extends(db, db')
       /\ \A k \in Added(db, db') : db'.sync_log[k][1] \in {"info", "warning", "error"}
       /\ ret'.op = "save_products_to_odoo" =>
             \A k \in 1..Len(ret'.arg) :
                 ProductRaises(ret'.arg[k]) =>
                     \E j \in Added(db, db') :
                         db'.sync_log[j] =
                             <<"error", <<"Error saving product", ret'.arg[k].title>>>>
       /\ ret'.op = "save_orders_to_odoo" =>
             \A k \in 1..Len(ret'.arg) :
                 OrderRaises(Resume(db), ret'.arg, k) =>
                     \E j \in Added(db, db') :
                         db'.sync_log[j] =
                             <<"error", <<"Error saving order", ret'.arg[k].name>>>>]_vars

(***************************************************************************)
(* C32: publication on the website.                                        *)
(***************************************************************************)
\* The switch as set_values(True) leaves it.
AutoPublishEnabled(d) == d.auto_publish = "True"

\* C32: after a reconciliation that created or updated the template of a
\* remote product, the template is published if and only if the
\* auto-publish switch is on and the remote status is 'active'.
C32_PublishedIffEnabledAndActive ==
    Delivered =>
        /\ ret.result.id \in Tagged(db, ret.arg.id)
        /\ db.tmpl[ret.result.id].is_published
               <=> (AutoPublishEnabled(db) /\ ret.arg.status = "active")

\* A template that was created unpublished is published by a later delivery
\* of the same product, after the switch was turned on.
C32_Witness ==
    /\ Delivered /\ AutoPublishEnabled(db) /\ ret.arg.status = "active"
    /\ db.tmpl[ret.result.id].is_published
    /\ \E k \in 1..Len(db.sync_log) :
          db.sync_log[k] = <<"info", <<"Successfully updated product template", ret.arg.title>>>>

(***************************************************************************)
(* C33: order lines.                                                       *)
(***************************************************************************)
\* The reconciliation that has just returned created an order.
OrderCreated(d, e, r) ==
    r.op = "_save_single_order" /\ ~r.exc /\ Len(e.order) = Len(d.order) + 1

\* C33: a reconciliation that creates an order creates one line per remote
\* line item, in their order; the line of an item whose variant id is the
\* tag of a local variant has that variant as its product, and the line of
\* an item without such a variant has no product and the item's title,
\* quantity and price.  Violated by an item that names variant 1 while
\* variant 1 is in the store: _create_order_line looks for the tag of the
\* line item's own id, finds nothing and creates a product-less line.
C33_OneLinePerItemByVariant ==
    [][OrderCreated(db, db', ret') =>
         LET items == ret'.arg.line_items
             lines == OrderLineIds(db', Len(db'.order), 1)
         IN  /\ Len(lines) = Len(items)
             /\ \A k \in 1..Len(items) :
                   LET l == db'.line[lines[k]]
                       match == TaggedVariants(db, items[k].variant_id)
                   IN  IF match # {}
                       THEN l.product_id \in match
                       ELSE /\ l.product_id = 0
                            /\ l.name = items[k].title
                            /\ l.product_uom_qty = items[k].quantity
                            /\ l.price_unit = items[k].price]_vars

(***************************************************************************)
(* C34: customers.                                                         *)
(***************************************************************************)
\* The partners that carry an email.
WithEmail(d, email) == {i \in 1..Len(d.partner) : d.partner[i].email = email}

\* C34: no two partners carry the same email; a reconciliation that creates
\* an order whose email a partner carries creates no partner and gives the
\* order to that partner; one whose email nobody carries creates one
\* partner with that email; one without email creates one partner named
\* after the order, without email.
C34_CustomerByEmail ==
    /\ [](\A i, j \in 1..Len(db.partner) :
             (i # j /\ db.partner[i].email # "")
                 => db.partner[i].email # db.partner[j].email)
    /\ [][OrderCreated(db, db', ret') =>
            LET o == ret'.arg
                customer == db'.order[Len(db'.order)].partner_id
            IN  IF o.email # "" /\ WithEmail(db, o.email) # {}
                THEN Len(db'.partner) = Len(db.partner) /\ customer \in WithEmail(db, o.email)
                ELSE /\ Len(db'.partner) = Len(db.partner) + 1
                     /\ customer = Len(db'.partner)
                     /\ db'.partner[customer].email = o.email
                     /\ o.email = "" => db'.partner[customer].name = o.name]_vars

\* Two orders of the same buyer were created and there is one partner; and
\* an order without email got a partner of its own.
C34_Witness ==
    /\ ret.op = "_save_single_order" /\ ~ret.exc /\ ret.arg.email = ""
    /\ Len(db.order) = 3 /\ Len(db.partner) = 2
    /\ db.order[1].partner_id = db.order[2].partner_id
    /\ db.partner[db.order[3].partner_id].email = ""

(***************************************************************************)
(* C35: overlapping invocations of different entry points.                 *)
(***************************************************************************)
\* The sales orders of a remote order.
OrdersOf(d, id) == {i \in 1..Len(d.order) : d.order[i].client_order_ref = ShopifyTag(id)}

\* The remote product ids of the scenario: those fetched and those the
\* remote shop gives to exported products.
RemoteIds == 1..NewRemoteId(MaxPid)

\* C35: while inbound products, inbound orders and the export overlap, a
\* step of one entry point leaves the watermark of the others as it is, no
\* watermark goes back, no remote product has two templates and no remote
\* order has two sales orders.  Violated without any overlap by an order
\* that is cancelled: it is fetched again by the next invocation (its
\* timestamp is the watermark), the lookup leaves cancelled orders out, and
\* a second sales order is created for it.
C35_OverlapHarmless ==
    /\ [](\A id \in RemoteIds : Cardinality(Tagged(db, id)) <= 1)
    /\ [](\A id \in OrderIds : Cardinality(OrdersOf(db, id)) <= 1)
    /\ [][/\ db'.last_updated_at >= db.last_updated_at
          /\ db'.orders_last_updated_at >= db.orders_last_updated_at
          /\ (Interleaved /\ ret'.arg[1] # "auto_sync_shopify_products")
                => db'.last_updated_at = db.last_updated_at
          /\ (Interleaved /\ ret'.arg[1] # "auto_sync_shopify_orders")
                => db'.orders_last_updated_at = db.orders_last_updated_at]_vars

(***************************************************************************)
(* C36: pushes that are still owed.                                        *)
(***************************************************************************)
\* The tagged templates the search of update_products_to_shopify would
\* find without its limit.
InUpdateDomain(d) == Range(UpdateDomain(d, TemplatesWhere(d, TRUE, 1)))

\* C36: a tagged template that the search of an update invocation could
\* find and that was modified after its last push, and that the invocation
\* did not push, can still be found by the search of the next invocation.
\* Violated by a push that fails, and by the template beyond the limit of
\* the search: the invocation ends by setting the last-sync instant to the
\* present, which is later than the modification.
C36_OwedPushStaysSelected ==
    [][(ret'.op = "update_products_to_shopify" /\ ~ret'.exc) =>
          \A i \in InUpdateDomain(Begin(db)) :
              (ShouldUpdateProductInShopify(db, i) /\ i \notin Pushed(db'))
                  => i \in InUpdateDomain(db')]_vars

(***************************************************************************)
(* C37: the product watermark and failed records.                          *)
(***************************************************************************)
\* The product invocation that has just returned had a batch to reconcile.
BatchSynced(r) ==
    r.op = "auto_sync_shopify_products" /\ r.arg.kind = "ok" /\ r.arg.batch # <<>>

BatchMax(r) == Max({r.arg.batch[k][2] : k \in 1..Len(r.arg.batch)})

\* C37 as stated: after an invocation with a batch the watermark is the
\* maximum update timestamp of the batch and the status is 'completed'.
\* Violated when that maximum is the watermark the invocation started from:
\* the watermark stored is one second later.
C37_AdvancesToBatchMaximum ==
    [][BatchSynced(ret') =>
          db'.last_updated_at = BatchMax(ret') /\ db'.sync_status = "completed"]_vars

\* C37: after an invocation with a batch, whatever records of it failed,
\* the status is 'completed' and the watermark is the maximum update
\* timestamp of the batch, or one second past it when that maximum is the
\* watermark the invocation started from; and no later fetch delivers a
\* product whose remote timestamp is below the watermark.
C37_WatermarkPastFailures ==
    /\ [][BatchSynced(ret') =>
             /\ db'.sync_status = "completed"
             /\ db'.last_updated_at =
                    IF BatchMax(ret') = db.last_updated_at THEN BatchMax(ret') + 1
                    ELSE BatchMax(ret')
             /\ \A k \in 1..Len(ret'.arg.batch) :
                    ret'.arg.batch[k][1] \in Unreconcilable
                        => Tagged(db', ret'.arg.batch[k][1]) = {}]_vars
    /\ [](\A id \in DOMAIN db.remote :
             (db.remote[id] # 0 /\ db.remote[id] < db.last_updated_at)
                 => \A limit \in Limits :
                    \A b \in CataloguePages(db.remote, limit, db.last_updated_at) :
                    \A i \in 1..Len(b) : b[i].id # id)

\* The batch held product 1, which failed, and the later product 2: the
\* invocation completed, the watermark is past product 1, which has no
\* template and has not changed remotely.
C37_Witness ==
    /\ BatchSynced(ret) /\ Len(ret.arg.batch) = 2 /\ ret.arg.batch[1][1] = 1
    /\ db.sync_status = "completed"
    /\ db.remote[1] # 0 /\ db.remote[1] < db.last_updated_at
    /\ Tagged(db, 1) = {} /\ Tagged(db, 2) # {}

(***************************************************************************)
(* C38: export, then import.                                               *)
(***************************************************************************)
\* The templates an export invocation has POSTed with success.
Exported(d) ==
    {i \in 1..Len(d.tmpl) :
        \E k \in 1..Len(d.sync_log) :
            d.sync_log[k] = <<"info", <<"Exported product", d.tmpl[i].name>>>>}

\* The variants of a template.
OfTemplate(d, t) == {v \in 1..Len(d.variant) : d.variant[v].product_tmpl_id = t}

\* C38: an export invocation POSTs no template that carries an external-id
\* tag, so a template stamped by an export is not POSTed again; and the
\* inbound reconciliation of the remote product a template was stamped with
\* returns that template, creates no template and no variant, and tags a
\* variant the template already had.
C38_ExportImportRoundTrip ==
    [][/\ ret'.op = "export_products_to_shopify" =>
             \A i \in Exported(db') : ~LikeShopify(db.tmpl[i].default_code)
       /\ (ret'.op = "_save_single_product" /\ ~ret'.exc) =>
             \A i \in 1..Len(db.tmpl) :
                 (db.tmpl[i].default_code = ShopifyTag(ret'.arg.id)
                      /\ db.tmpl[i].x_shopify_synced_at # 0)
                     => /\ ret'.result.id = i
                        /\ Len(db'.tmpl) = Len(db.tmpl)
                        /\ Tagged(db', ret'.arg.id) = {i}
                        /\ Len(db'.variant) = Len(db.variant)
                        /\ \E v \in OfTemplate(db, i) :
                               db'.variant[v].default_code
                                   = VariantTag(ret'.arg.variants[1].id)]_vars

\* Template 1 was exported and stamped with the id the remote shop gave
\* it, and the product of that id has come back: there are as many
\* templates and variants as before the export, and the variant of
\* template 1 carries the tag of the remote variant.
C38_Witness ==
    /\ ret.op = "_save_single_product" /\ ~ret.exc /\ ret.arg.id = NewRemoteId(1)
    /\ ret.result.id = 1 /\ db.tmpl[1].x_shopify_synced_at # 0
    /\ Len(db.tmpl) = MaxPid /\ Len(db.variant) = MaxPid
    /\ db.variant[1].default_code = VariantTag(NewRemoteId(1))

(***************************************************************************)
(* Purchase orders from sale-order lines.                                  *)
(***************************************************************************)
Purchased == ret.op = "action_create_purchase_order"

\* The price-list rows that can supply a sale line, and the cheapest of them.
EligibleRows(d, line) ==
    {i \in 1..Len(d.supplierinfo) :
        /\ d.line[line].product_id # 0
        /\ d.supplierinfo[i].product_tmpl_id
               = d.variant[d.line[line].product_id].product_tmpl_id
        /\ d.supplierinfo[i].min_qty <= d.line[line].product_uom_qty}

Cheapest(d, line) ==
    {i \in EligibleRows(d, line) :
        \A j \in EligibleRows(d, line) : d.supplierinfo[i].price <= d.supplierinfo[j].price}

Drafts(d, vendor) ==
    {i \in 1..Len(d.purchase) :
        d.purchase[i].partner_id = vendor /\ d.purchase[i].state = "draft"}

LinesOn(d, po, product) ==
    {i \in 1..Len(d.purchase_line) :
        d.purchase_line[i].order_id = po /\ d.purchase_line[i].product_id = product}

RECURSIVE SumSeq(_)
SumSeq(q) == IF q = <<>> THEN 0 ELSE Head(q) + SumSeq(Tail(q))

\* The quantity purchased of a product on a purchase order.
QtyOn(d, po, product) ==
    SumSeq([i \in 1..Len(d.purchase_line) |->
               IF i \in LinesOn(d, po, product) THEN d.purchase_line[i].product_qty ELSE 0])

\* The step db -> db' of a selection is the one the claim describes when
\* every sale line k is given the cheapest eligible row choice[k].
GroupedBy(choice) ==
    LET self == ret'.arg
        VendorOf(k) == db.supplierinfo[choice[k]].partner_id
        OrdersOf39(k) == {po \in ret'.result :
                            /\ db'.purchase[po].partner_id = VendorOf(k)
                            /\ db'.purchase[po].state = "draft"}
        PoOf(k) == CHOOSE po \in OrdersOf39(k) : TRUE
        Fresh == {VendorOf(k) : k \in {j \in 1..Len(self) : Drafts(db, VendorOf(j)) = {}}}
    IN  /\ \A k \in 1..Len(self) : choice[k] \in Cheapest(db, self[k])
        /\ \A k \in 1..Len(self) :
               /\ Cardinality(OrdersOf39(k)) = 1
               /\ Drafts(db, VendorOf(k)) # {} => PoOf(k) \in Drafts(db, VendorOf(k))
               /\ Drafts(db, VendorOf(k)) = {} => PoOf(k) > Len(db.purchase)
        /\ ret'.result = UNION {OrdersOf39(k) : k \in 1..Len(self)}
        /\ Len(db'.purchase) = Len(db.purchase) + Cardinality(Fresh)
        /\ SubSeq(db'.purchase, 1, Len(db.purchase)) = db.purchase
        /\ \A po \in 1..Len(db'.purchase), product \in 0..Len(db.variant) :
               QtyOn(db', po, product)
                   = QtyOn(db, po, product)
                     + SumSeq([k \in 1..Len(self) |->
                           IF db.line[self[k]].product_id = product /\ po \in OrdersOf39(k)
                           THEN db.line[self[k]].product_uom_qty ELSE 0])

\* C39: a successful action gives every selected sale line to the draft
\* purchase order of the vendor of a cheapest seller whose min_qty is at most
\* the line quantity: the vendor's existing draft order if there is one, else
\* one new order per vendor; the quantity of every (order, product) grows by
\* exactly the quantities of the lines given to it, and no (order, product)
\* ever has more than one purchase line.
C39_GroupedByBestSeller ==
    /\ [](\A po \in 1..Len(db.purchase), product \in 0..Len(db.variant) :
              Cardinality(LinesOn(db, po, product)) <= 1)
    /\ [][(Purchased' /\ ~ret'.exc)
              => \E choice \in [1..Len(ret'.arg) -> 1..Len(db.supplierinfo)] :
                     GroupedBy(choice)]_vars

\* Two sale lines of one product were merged into one purchase line of the
\* only purchase order.
C39_Witness ==
    /\ Purchased /\ ~ret.exc /\ Len(ret.arg) = 2
    /\ db.line[ret.arg[1]].product_id = db.line[ret.arg[2]].product_id
    /\ Len(db.purchase) = 1 /\ Len(db.purchase_line) = 1
    /\ db.purchase_line[1].product_qty
           >= db.line[ret.arg[1]].product_uom_qty + db.line[ret.arg[2]].product_uom_qty

\* C40: a selection with a sale line that no seller can supply raises, and
\* an action that raises leaves every purchase order and purchase line as
\* they were.
C40_RaisesBeforeAnyWrite ==
    [][Purchased'
          => /\ (\E k \in 1..Len(ret'.arg) : EligibleRows(db, ret'.arg[k]) = {})
                    => ret'.exc
             /\ ret'.exc => db' = db]_vars

\* The action raised on a selection whose first line has a seller and whose
\* second has none, with purchase orders in the store.
C40_Witness ==
    /\ Purchased /\ ret.exc /\ Len(ret.arg) = 2
    /\ EligibleRows(db, ret.arg[1]) # {}
    /\ EligibleRows(db, ret.arg[2]) = {}
    /\ db.purchase # <<>>

====
